---- MODULE Spec2Model ----
(***************************************************************************)
(* Model of the scan state machine of ConfocalLogic                        *)
(* (src/logic/confocal_test_logic.py).                                     *)
(*                                                                         *)
(* Conventions                                                             *)
(*  - Every slot (toggle_scan, _scan_loop, set_scanner_settings) is one    *)
(*    atomic action: slots run one after another on the logic thread.      *)
(*  - A Python dict is a function on its keys; a dict given as an INPUT    *)
(*    is a sequence of <<key, value>> pairs, in insertion order.           *)
(*  - None is the empty tuple <<>>; an optional entry of a settings        *)
(*    update is <<>> (absent) or <<value>> (present).                      *)
(*  - Numbers that the code passes through int() are supplied in halves    *)
(*    (h stands for h/2), so that the truncation is visible.               *)
(*  - Positions are integers in units of 1/PosScale of the range unit, so  *)
(*    that every interpolation the code computes is exact.                 *)
(*  - The clock counts sleep quanta of 0.1 s (time.sleep(0.1), line 448).  *)
(***************************************************************************)
EXTENDS Integers, Sequences, FiniteSets, TLC

\* ------------------------------------------------------------------ bounds
\* Largest scan resolution the model supplies (the code draws 100..400).
MaxRes == 3
\* Largest clock value at which time still passes between two slots.
MaxClock == 2
\* Number of start requests and of settings updates in one behaviour.
MaxStarts == 2
MaxUpdates == 2
\* Number of direct add_line_data calls in one behaviour.
MaxLineCalls == 2
\* Largest num_frames of the imaging task's user configuration.
MaxFrames == 2
\* Number of missed triggers and of fire readings above the threshold that
\* the hardware produces during one run of the imaging task.
MaxMisses == 2
MaxHighReads == 1
\* Number of runs of the imaging task in one behaviour.
MaxRuns == 2

\* --------------------------------------------------------------- constants
min_resolution == 2
\* One outcome of limit = 50e-6 + 50e-6 * rand(), in range units.
AxisLimit == 2
InitPixelClock == 1000
InitBackscanPoints == 50
\* time.sleep(0.1): clock quanta per second
QuantaPerSecond == 10

Axes == <<"x", "y", "z", "phi">>
AxisSet == {Axes[i] : i \in 1..Len(Axes)}
Channels == {"fluorescence", "unfug"}

RECURSIVE Factorial(_)
Factorial(n) == IF n <= 1 THEN 1 ELSE n * Factorial(n - 1)
PosScale == Factorial(MaxRes - 1)

None == <<>>
EmptyDict == [k \in {} |-> <<>>]

VARIABLES
    module_state,        \* "idle" | "locked"
    scanner_settings,    \* self._scanner_settings
    target,              \* self._target
    scan_data,           \* self._scan_data: axes pair -> ScanData
    current_dummy_data,  \* self._current_dummy_data
    timer_running,       \* self.__timer is active
    scan_line_count,     \* self.__scan_line_count
    running_scan,        \* self.__running_scan
    scan_start_time,     \* self.__scan_start_time
    scan_line_interval,  \* self.__scan_line_interval, <<num, den>> seconds
    scan_line_positions, \* self.__scan_line_positions
    scan_stop_requested, \* self.__scan_stop_requested
    next_line_pending,   \* queued __sigNextLine events
    now,                 \* time.time(), in sleep quanta
    last,                \* the slot that ran last, its arguments and outcome
    emitted,             \* the signals the last slot emitted, in order
    ghost,               \* history of the running scan (not program state)
    calls,               \* requests issued so far (not program state)
    line_call,           \* the last direct add_line_data call and its outcome
    task_state,          \* the task framework's state: "stopped" | "running"
    task_pc,             \* where the running task stands in its code
    task,                \* the attributes of the imaging Task object
    daq,                 \* the laser controller logic and its outputs
    camera,              \* the camera logic and the camera's modes
    filter_position,     \* the filter wheel
    ops,                 \* hardware calls the last task action made, in order
    tlast,               \* the task action that ran last and its outcome
    tghost,              \* history of the task run (not program state)
    laser_call,          \* the last direct LaserControlLogic call and its writes
    target_call,         \* the last set_scanner_target_position call
    odor_gui,            \* the widgets and attributes of OdorCircuitGUI
    odor_logic,          \* the calls OdorCircuitGUI made on the odor logic
    gui_call             \* the OdorCircuitGUI handler that ran last

vars == <<module_state, scanner_settings, target, scan_data, current_dummy_data,
          timer_running, scan_line_count, running_scan, scan_start_time,
          scan_line_interval, scan_line_positions, scan_stop_requested,
          next_line_pending, now, last, emitted, ghost, calls, line_call,
          task_state, task_pc, task, daq, camera, filter_position, ops, tlast,
          tghost, laser_call, target_call, odor_gui, odor_logic, gui_call>>

\* the state outside the scan machine
taskVars == <<task_state, task_pc, task, daq, camera, filter_position, ops,
              tlast, tghost>>

\* the records of direct calls and the odor circuit GUI
otherVars == <<laser_call, target_call, odor_gui, odor_logic, gui_call>>

nonScanVars == <<line_call, taskVars, otherVars>>

scanVars == <<module_state, target, scan_data, current_dummy_data,
              timer_running, scan_line_count, running_scan, scan_start_time,
              scan_line_interval, scan_line_positions, scan_stop_requested,
              next_line_pending, now, ghost>>

\* ------------------------------------------------------------ constraints
Constraint(axis) ==
    [min_value |-> -AxisLimit, max_value |-> AxisLimit,
     min_resolution |-> min_resolution, max_resolution |-> "inf"]

\* res > max_resolution, where max_resolution is np.inf
ExceedsMaxResolution(res, axis) ==
    Constraint(axis).max_resolution # "inf" /\ res > Constraint(axis).max_resolution

\* itertools.combinations(axes, 2)
Combinations2 ==
    LET n == Len(Axes)
        Pairs == {<<i, j>> \in (1..n) \X (1..n) : i < j}
        Rank(p) == Cardinality({q \in Pairs :
                        q[1] < p[1] \/ (q[1] = p[1] /\ q[2] <= p[2])})
    IN  [k \in 1..Cardinality(Pairs) |->
            LET p == CHOOSE q \in Pairs : Rank(q) = k IN <<Axes[p[1]], Axes[p[2]]>>]

SeqToSet(s) == {s[i] : i \in 1..Len(s)}

\* ---------------------------------------------------------------- signals
ScanStateEvt(running, axes) ==
    [sig |-> "sigScanStateChanged", running |-> running, axes |-> axes,
     settings |-> None]
ScanDataEvt(axes) ==
    [sig |-> "sigScanDataChanged", running |-> TRUE, axes |-> axes,
     settings |-> None]
SettingsEvt(s) ==
    [sig |-> "sigScannerSettingsChanged", running |-> FALSE, axes |-> None,
     settings |-> <<s>>]

NoSettings ==
    [scan_axes |-> None, pixel_clock_frequency |-> None, backscan_points |-> None,
     scan_resolution |-> None, scan_range |-> None]

Call(op, start, axes, settings, err, exc) ==
    [op |-> op, start |-> start, axes |-> axes, settings |-> settings,
     err |-> err, exc |-> exc]

\* ------------------------------------------------- set_scanner_settings
\* int(v) for a positive v supplied in halves
ToInt(h) == h \div 2

\* index of the first TRUE of a sequence of flags, 0 if there is none: the
\* element at which a validating for-loop returns
FirstBad(flags) ==
    IF \E i \in 1..Len(flags) : flags[i]
    THEN CHOOSE i \in 1..Len(flags) : flags[i] /\ \A j \in 1..(i-1) : ~flags[j]
    ELSE 0

\* dict.update(pairs): later pairs win
RECURSIVE DictUpdate(_, _)
DictUpdate(d, pairs) ==
    IF pairs = <<>> THEN d
    ELSE DictUpdate([k \in DOMAIN d \cup {pairs[1][1]} |->
                        IF k = pairs[1][1] THEN pairs[1][2] ELSE d[k]],
                    Tail(pairs))

Min2(r) == IF r[1] <= r[2] THEN r[1] ELSE r[2]
Max2(r) == IF r[1] >= r[2] THEN r[1] ELSE r[2]

\* lines 296-305
ApplyScanAxes(s, in) ==
    IF in.scan_axes = None THEN [s |-> s, err |-> ""]
    ELSE LET axs == in.scan_axes[1]
             BadLen(a) == ~(0 < Len(a) /\ Len(a) < 3)
             BadAxis(a) == \E i \in 1..Len(a) : a[i] \notin AxisSet
             Bad(a) == BadLen(a) \/ BadAxis(a)
             k == FirstBad([i \in 1..Len(axs) |-> Bad(axs[i])])
         IN  IF k = 0 THEN [s |-> [s EXCEPT !.scan_axes = axs], err |-> ""]
             ELSE IF BadLen(axs[k])
                  THEN [s |-> s, err |-> "Scan_axes must contain only tuples of len 1 or 2."]
                  ELSE [s |-> s, err |-> "Axis is no valid axis for scanner."]

\* lines 306-310
ApplyPixelClock(s, in) ==
    IF in.pixel_clock_frequency = None THEN [s |-> s, err |-> ""]
    ELSE IF in.pixel_clock_frequency[1] < 2
         THEN [s |-> s, err |-> "Pixel clock frequency must be integer number >= 1."]
         ELSE [s |-> [s EXCEPT !.pixel_clock_frequency = ToInt(in.pixel_clock_frequency[1])],
               err |-> ""]

\* The backscan branch as a copy of the pixel-clock branch that still stores
\* into the pixel clock.
ApplyBackscanPointsPasted(s, in) ==
    IF in.backscan_points = None THEN [s |-> s, err |-> ""]
    ELSE IF in.backscan_points[1] < 2
         THEN [s |-> s, err |-> "Backscan points must be integer number >= 1."]
         ELSE [s |-> [s EXCEPT !.pixel_clock_frequency = ToInt(in.backscan_points[1])],
               err |-> ""]

\* lines 311-315
ApplyBackscanPoints(s, in) ==
    IF in.backscan_points = None THEN [s |-> s, err |-> ""]
    ELSE IF in.backscan_points[1] < 2
         THEN [s |-> s, err |-> "Backscan points must be integer number >= 1."]
         ELSE [s |-> [s EXCEPT !.backscan_points = ToInt(in.backscan_points[1])],
               err |-> ""]

\* lines 316-327
ApplyScanResolution(s, in) ==
    IF in.scan_resolution = None THEN [s |-> s, err |-> ""]
    ELSE LET pairs == in.scan_resolution[1]
             BadAxis(p) == p[1] \notin AxisSet
             BadRes(p) == \/ p[2] < Constraint(p[1]).min_resolution
                          \/ ExceedsMaxResolution(p[2], p[1])
             Bad(p) == BadAxis(p) \/ BadRes(p)
             k == FirstBad([i \in 1..Len(pairs) |-> Bad(pairs[i])])
         IN  IF k = 0
             THEN [s |-> [s EXCEPT !.scan_resolution = DictUpdate(@, pairs)], err |-> ""]
             ELSE IF BadAxis(pairs[k])
                  THEN [s |-> s, err |-> "Axis is no valid axis for scanner."]
                  ELSE [s |-> s, err |-> "Resolution to set not within allowed boundaries."]

\* lines 328-339
ApplyScanRange(s, in) ==
    IF in.scan_range = None THEN [s |-> s, err |-> ""]
    ELSE LET pairs == in.scan_range[1]
             BadAxis(p) == p[1] \notin AxisSet
             BadMin(p) == Min2(p[2]) < Constraint(p[1]).min_value
             BadMax(p) == Max2(p[2]) > Constraint(p[1]).max_value
             Bad(p) == BadAxis(p) \/ BadMin(p) \/ BadMax(p)
             k == FirstBad([i \in 1..Len(pairs) |-> Bad(pairs[i])])
         IN  IF k = 0
             THEN [s |-> [s EXCEPT !.scan_range = DictUpdate(@, pairs)], err |-> ""]
             ELSE IF BadAxis(pairs[k])
                  THEN [s |-> s, err |-> "Axis is no valid axis for scanner."]
                  ELSE IF BadMin(pairs[k])
                       THEN [s |-> s, err |-> "Scan range to set not within allowed boundaries."]
                       ELSE [s |-> s, err |-> "Resolution to set not within allowed boundaries."]

\* The stored settings and the logged error when the slot returns: the fields
\* are checked and stored one after another, and the first error returns.
SetScannerSettingsResult(s, in) ==
    LET r1 == ApplyScanAxes(s, in) IN
    IF r1.err # "" THEN r1 ELSE
    LET r2 == ApplyPixelClock(r1.s, in) IN
    IF r2.err # "" THEN r2 ELSE
    LET r3 == ApplyBackscanPoints(r2.s, in) IN
    IF r3.err # "" THEN r3 ELSE
    LET r4 == ApplyScanResolution(r3.s, in) IN
    IF r4.err # "" THEN r4 ELSE
    ApplyScanRange(r4.s, in)

set_scanner_settings(settings) ==
    LET r == SetScannerSettingsResult(scanner_settings, settings) IN
    /\ scanner_settings' = r.s
    /\ emitted' = IF r.err = "" THEN <<SettingsEvt(r.s)>> ELSE <<>>
    /\ last' = Call("set_scanner_settings", FALSE, None, settings, r.err, "")
    /\ UNCHANGED scanVars

\* --------------------------------------------------------------- ScanData
\* np.zeros((rx, ry))
Zeros(rx, ry) == [i \in 1..rx |-> [j \in 1..ry |-> 0]]

\* ScanData.__init__ raises ValueError (lines 42-44)
ScanDataRaises(scan_axes, s) == scan_axes \notin SeqToSet(s.scan_axes)

\* A buffer allocated with the two resolutions in the wrong order.
NewScanDataTransposed(scan_axes, s) ==
    LET res == <<s.scan_resolution[scan_axes[2]], s.scan_resolution[scan_axes[1]]>>
    IN  [scan_axes |-> scan_axes,
         target_ranges |-> <<s.scan_range[scan_axes[1]], s.scan_range[scan_axes[2]]>>,
         resolution |-> res,
         position_data |-> [a \in DOMAIN s.scan_resolution |-> Zeros(res[1], res[2])],
         data |-> [c \in Channels |-> Zeros(res[1], res[2])]]

\* ScanData.__init__ followed by new_data()
NewScanData(scan_axes, s) ==
    LET res == <<s.scan_resolution[scan_axes[1]], s.scan_resolution[scan_axes[2]]>>
    IN  [scan_axes |-> scan_axes,
         target_ranges |-> <<s.scan_range[scan_axes[1]], s.scan_range[scan_axes[2]]>>,
         resolution |-> res,
         position_data |-> [a \in DOMAIN s.scan_resolution |-> Zeros(res[1], res[2])],
         data |-> [c \in Channels |-> Zeros(res[1], res[2])]]

\* arr[:, y_index] = line   (y_index 0-based)
SetColumn(arr, y_index, line) ==
    [i \in DOMAIN arr |-> [arr[i] EXCEPT ![y_index + 1] = line[i]]]

\* arr[x_index, :] = line   (x_index 0-based)
SetRow(arr, x_index, line) == [arr EXCEPT ![x_index + 1] = line]

\* add_line_data(position, data, y_index, x_index): the exception it raises, if
\* any.  An index is None or <<i>>.
add_line_data_raises(sd, position, data, y_index, x_index) ==
    LET BadSize(arr) == \/ y_index = None /\ Len(arr) # sd.resolution[2]
                        \/ x_index = None /\ Len(arr) # sd.resolution[1]
    IN  IF x_index = None /\ y_index = None THEN "ValueError"
        ELSE IF DOMAIN position # DOMAIN sd.position_data THEN "ValueError"
        ELSE IF DOMAIN data # DOMAIN sd.data THEN "ValueError"
        ELSE IF \E a \in DOMAIN position : BadSize(position[a]) THEN "ValueError"
        ELSE IF \E c \in DOMAIN data : BadSize(data[c]) THEN "ValueError"
        ELSE IF y_index = None
             THEN IF x_index[1] >= sd.resolution[1] THEN "IndexError" ELSE ""
        ELSE IF x_index = None
             THEN IF y_index[1] >= sd.resolution[2] THEN "IndexError" ELSE ""
        ELSE ""

\* lines 120-123 and 126-129: the array after the write of one line
WriteLine(arr, line, y_index, x_index) ==
    IF y_index = None THEN SetRow(arr, x_index[1], line)
    ELSE IF x_index = None THEN SetColumn(arr, y_index[1], line)
    ELSE arr

\* add_line_data(position, data, y_index, x_index): the buffer when it returns
add_line_data(sd, position, data, y_index, x_index) ==
    [sd EXCEPT
        !.data = [c \in DOMAIN sd.data |->
                     WriteLine(sd.data[c], data[c], y_index, x_index)],
        !.position_data = [a \in DOMAIN sd.position_data |->
                              WriteLine(sd.position_data[a], position[a],
                                        y_index, x_index)]]

\* add_line_data(position, data, y_index=...): the exception it raises, if any
AddLineRaises(sd, position, data, y_index) ==
    add_line_data_raises(sd, position, data, <<y_index>>, None)

\* A write that ignores the line index and always fills the first column.
AddLineDataFirstColumn(sd, position, data, y_index) ==
    [sd EXCEPT
        !.data = [c \in DOMAIN sd.data |-> SetColumn(sd.data[c], 0, data[c])],
        !.position_data = [a \in DOMAIN sd.position_data |->
                              SetColumn(sd.position_data[a], 0, position[a])]]

\* add_line_data(position, data, y_index=...): the buffer after the write
AddLineData(sd, position, data, y_index) ==
    add_line_data(sd, position, data, <<y_index>>, None)

\* ---------------------------------------------------------- dummy data
\* One outcome of the random image: a positive value per pixel, all different.
DummyData(x_res, y_res) == [i \in 1..x_res |-> [j \in 1..y_res |-> 10 * i + j]]

\* _generate_2d_dummy_data(axes): the exception it raises, if any
GenerateDummyRaises(axes, s) ==
    IF Len(axes) < 1 THEN "IndexError"
    ELSE IF axes[1] \notin DOMAIN s.scan_resolution THEN "KeyError"
    ELSE IF Len(axes) < 2 THEN "IndexError"
    ELSE IF axes[2] \notin DOMAIN s.scan_resolution THEN "KeyError"
    ELSE LET x_range == s.scan_range[axes[1]][2] - s.scan_range[axes[1]][1]
             y_range == s.scan_range[axes[2]][2] - s.scan_range[axes[2]][1]
         IN  IF x_range * y_range < 0 THEN "ValueError" ELSE ""

\* np.linspace(lo, hi, num), in position units
Linspace(lo, hi, num) ==
    [i \in 1..num |-> PosScale * lo + ((i - 1) * PosScale * (hi - lo)) \div (num - 1)]

\* np.full(num, v)
Full(num, v) == [i \in 1..num |-> v]

\* ---------------------------------------------------------- toggle_scan
\* The line positions built at scan start (lines 415-420)
StartLinePositions(scan_axes, s) ==
    LET num_x_vals == s.scan_resolution[scan_axes[1]]
        rng == s.scan_range[scan_axes[1]]
    IN  [a \in AxisSet |->
            IF a = scan_axes[1] THEN Linspace(rng[1], rng[2], num_x_vals)
            ELSE Full(num_x_vals, target[a])]

\* A start request during a scan that restarts the line counter.
StartRejectedResetsCount(scan_axes) ==
    /\ module_state # "idle"
    /\ last' = Call("toggle_scan", TRUE, scan_axes, NoSettings,
                    "Unable to start scan. Scan already in progress.", "")
    /\ emitted' = <<>>
    /\ scan_line_count' = 0
    /\ UNCHANGED <<scanner_settings, module_state, target, scan_data,
                   current_dummy_data, timer_running, running_scan, scan_start_time,
                   scan_line_interval, scan_line_positions, scan_stop_requested,
                   next_line_pending, now, ghost>>

\* lines 392-394: start while a scan is in progress
StartRejected(scan_axes) ==
    /\ module_state # "idle"
    /\ last' = Call("toggle_scan", TRUE, scan_axes, NoSettings,
                    "Unable to start scan. Scan already in progress.", "")
    /\ emitted' = <<>>
    /\ UNCHANGED <<scanner_settings, scanVars>>

\* A stop request on an idle machine that sets the flag before it returns.
StopRejectedSetsFlag(scan_axes) ==
    /\ module_state = "idle"
    /\ last' = Call("toggle_scan", FALSE, scan_axes, NoSettings,
                    "Unable to stop scan. No scan running.", "")
    /\ emitted' = <<>>
    /\ scan_stop_requested' = TRUE
    /\ UNCHANGED <<scanner_settings, module_state, target, scan_data,
                   current_dummy_data, timer_running, scan_line_count, running_scan,
                   scan_start_time, scan_line_interval, scan_line_positions,
                   next_line_pending, now, ghost>>

\* lines 395-397: stop while no scan is running
StopRejected(scan_axes) ==
    /\ module_state = "idle"
    /\ last' = Call("toggle_scan", FALSE, scan_axes, NoSettings,
                    "Unable to stop scan. No scan running.", "")
    /\ emitted' = <<>>
    /\ UNCHANGED <<scanner_settings, scanVars>>

\* lines 399-422: the statements run in order; an exception leaves the slot
\* with the assignments made so far.
StartScan(scan_axes) ==
    LET s == scanner_settings
        gen == GenerateDummyRaises(scan_axes, s)
        exc == IF gen # "" THEN gen
               ELSE IF ScanDataRaises(scan_axes, s) THEN "ValueError" ELSE ""
    IN  /\ module_state = "idle"
        /\ module_state' = "locked"
        /\ timer_running' = FALSE
        /\ running_scan' = scan_axes
        /\ emitted' = <<ScanStateEvt(TRUE, scan_axes)>>
        /\ IF gen = ""
           THEN /\ current_dummy_data' = DummyData(s.scan_resolution[scan_axes[1]],
                                                   s.scan_resolution[scan_axes[2]])
                /\ scan_line_count' = 0
                /\ scan_start_time' = now
           ELSE UNCHANGED <<current_dummy_data, scan_line_count, scan_start_time>>
        /\ IF exc = ""
           THEN /\ scan_data' = [k \in DOMAIN scan_data \cup {scan_axes} |->
                                    IF k = scan_axes THEN NewScanData(scan_axes, s)
                                    ELSE scan_data[k]]
                /\ scan_line_interval' = <<s.scan_resolution[scan_axes[1]],
                                           s.pixel_clock_frequency>>
                /\ scan_line_positions' = StartLinePositions(scan_axes, s)
                /\ scan_stop_requested' = FALSE
                /\ next_line_pending' = next_line_pending + 1
                /\ ghost' = [start_settings |-> s, line_events |-> 0, drift |-> FALSE]
           ELSE UNCHANGED <<scan_data, scan_line_interval, scan_line_positions,
                            scan_stop_requested, next_line_pending, ghost>>
        /\ last' = Call("toggle_scan", TRUE, scan_axes, NoSettings, "", exc)
        /\ UNCHANGED <<scanner_settings, target, now>>

\* A stop request that tears the scan down itself instead of setting the flag.
RequestStopUnlocks(scan_axes) ==
    /\ module_state # "idle"
    /\ scan_stop_requested' = TRUE
    /\ module_state' = "idle"
    /\ timer_running' = TRUE
    /\ last' = Call("toggle_scan", FALSE, scan_axes, NoSettings, "", "")
    /\ emitted' = <<ScanStateEvt(FALSE, running_scan)>>
    /\ UNCHANGED <<scanner_settings, target, scan_data, current_dummy_data,
                   scan_line_count, running_scan, scan_start_time, scan_line_interval,
                   scan_line_positions, next_line_pending, now, ghost>>

\* A stop request that queues a next-line event of its own.
RequestStopEmitsNextLine(scan_axes) ==
    /\ module_state # "idle"
    /\ scan_stop_requested' = TRUE
    /\ next_line_pending' = next_line_pending + 1
    /\ last' = Call("toggle_scan", FALSE, scan_axes, NoSettings, "", "")
    /\ emitted' = <<>>
    /\ UNCHANGED <<scanner_settings, module_state, target, scan_data,
                   current_dummy_data, timer_running, scan_line_count, running_scan,
                   scan_start_time, scan_line_interval, scan_line_positions,
                   now, ghost>>

\* lines 423-424
RequestStop(scan_axes) ==
    /\ module_state # "idle"
    /\ scan_stop_requested' = TRUE
    /\ last' = Call("toggle_scan", FALSE, scan_axes, NoSettings, "", "")
    /\ emitted' = <<>>
    /\ UNCHANGED <<scanner_settings, module_state, target, scan_data,
                   current_dummy_data, timer_running, scan_line_count, running_scan,
                   scan_start_time, scan_line_interval, scan_line_positions,
                   next_line_pending, now, ghost>>

toggle_scan(scan_axes, start) ==
    IF start
    THEN StartRejected(scan_axes) \/ StartScan(scan_axes)
    ELSE StopRejected(scan_axes) \/ RequestStop(scan_axes)

\* ------------------------------------------------------------ _scan_loop
\* A scan loop that does not wait for the line's deadline.
WaitUntilNoWait(start, count, interval) == now

\* The clock when "while time.time() < next_line_time: time.sleep(0.1)" ends:
\* the first quantum t >= now with t >= start + count * interval.
WaitUntil(start, count, interval) ==
    LET a == QuantaPerSecond * count * interval[1]
        b == interval[2]
        deadline == start + (a + b - 1) \div b
    IN  IF now >= deadline THEN now ELSE deadline

\* lines 440-443: the slow-axis positions of the line
SlowAxisPositions(s, axes, line_count) ==
    LET max_number_of_lines == s.scan_resolution[axes[2]]
        y_min == s.scan_range[axes[2]][1]
        y_max == s.scan_range[axes[2]][2]
    IN  Full(s.scan_resolution[axes[1]],
             PosScale * y_min + (PosScale * (y_max - y_min)) \div (max_number_of_lines - 1))

\* history: this iteration reads resolutions other than those of the scan start
Drifted == scanner_settings.scan_resolution # ghost.start_settings.scan_resolution

\* lines 429-430: the event arrives while no scan is running
ScanLoopIdle ==
    /\ next_line_pending > 0
    /\ module_state # "locked"
    /\ next_line_pending' = next_line_pending - 1
    /\ last' = Call("_scan_loop", FALSE, None, NoSettings, "", "")
    /\ emitted' = <<>>
    /\ UNCHANGED <<scanner_settings, module_state, target, scan_data,
                   current_dummy_data, timer_running, scan_line_count, running_scan,
                   scan_start_time, scan_line_interval, scan_line_positions,
                   scan_stop_requested, now, ghost>>

\* A scan loop that returns to Idle and leaves the position timer stopped.
ScanLoopFinishTimerStopped ==
    /\ next_line_pending > 0
    /\ module_state = "locked"
    /\ \/ scan_line_count >= scanner_settings.scan_resolution[running_scan[2]]
       \/ scan_stop_requested
    /\ next_line_pending' = next_line_pending - 1
    /\ module_state' = "idle"
    /\ emitted' = <<ScanStateEvt(FALSE, running_scan)>>
    /\ last' = Call("_scan_loop", FALSE, running_scan, NoSettings, "", "")
    /\ ghost' = [ghost EXCEPT !.drift = @ \/ Drifted]
    /\ UNCHANGED <<scanner_settings, target, scan_data, current_dummy_data,
                   timer_running, scan_line_count, running_scan, scan_start_time,
                   scan_line_interval, scan_line_positions, scan_stop_requested, now>>

\* A scan loop that returns to Idle without announcing it.
ScanLoopFinishSilent ==
    /\ next_line_pending > 0
    /\ module_state = "locked"
    /\ \/ scan_line_count >= scanner_settings.scan_resolution[running_scan[2]]
       \/ scan_stop_requested
    /\ next_line_pending' = next_line_pending - 1
    /\ module_state' = "idle"
    /\ emitted' = <<>>
    /\ timer_running' = TRUE
    /\ last' = Call("_scan_loop", FALSE, running_scan, NoSettings, "", "")
    /\ ghost' = [ghost EXCEPT !.drift = @ \/ Drifted]
    /\ UNCHANGED <<scanner_settings, target, scan_data, current_dummy_data,
                   scan_line_count, running_scan, scan_start_time, scan_line_interval,
                   scan_line_positions, scan_stop_requested, now>>

\* lines 433-438: all lines done, or stop requested
ScanLoopFinish ==
    /\ next_line_pending > 0
    /\ module_state = "locked"
    /\ \/ scan_line_count >= scanner_settings.scan_resolution[running_scan[2]]
       \/ scan_stop_requested
    /\ next_line_pending' = next_line_pending - 1
    /\ module_state' = "idle"
    /\ emitted' = <<ScanStateEvt(FALSE, running_scan)>>
    /\ timer_running' = TRUE
    /\ last' = Call("_scan_loop", FALSE, running_scan, NoSettings, "", "")
    /\ ghost' = [ghost EXCEPT !.drift = @ \/ Drifted]
    /\ UNCHANGED <<scanner_settings, target, scan_data, current_dummy_data,
                   scan_line_count, running_scan, scan_start_time, scan_line_interval,
                   scan_line_positions, scan_stop_requested, now>>

\* lines 440-459: one line
ScanLoopLine ==
    LET s == scanner_settings
        sd == scan_data[running_scan]
        positions == [scan_line_positions EXCEPT
                         ![running_scan[2]] = SlowAxisPositions(s, running_scan,
                                                                scan_line_count)]
        count == scan_line_count + 1
        index_error == count - 1 >= Len(current_dummy_data[1])
        scan_line == [i \in 1..Len(current_dummy_data) |-> current_dummy_data[i][count]]
        data == [c \in DOMAIN sd.data |-> scan_line]
        exc == IF index_error THEN "IndexError"
               ELSE AddLineRaises(sd, positions, data, count - 1)
    IN  /\ next_line_pending > 0
        /\ module_state = "locked"
        /\ ~(scan_line_count >= s.scan_resolution[running_scan[2]])
        /\ ~scan_stop_requested
        /\ scan_line_positions' = positions
        /\ scan_line_count' = count
        /\ now' = WaitUntil(scan_start_time, count, scan_line_interval)
        /\ IF exc = ""
           THEN /\ scan_data' = [scan_data EXCEPT
                                    ![running_scan] = AddLineData(sd, positions, data,
                                                                  count - 1)]
                /\ emitted' = <<ScanDataEvt(running_scan)>>
                /\ next_line_pending' = next_line_pending
                /\ ghost' = [ghost EXCEPT !.line_events = @ + 1,
                                           !.drift = @ \/ Drifted]
           ELSE /\ emitted' = <<>>
                /\ next_line_pending' = next_line_pending - 1
                /\ ghost' = [ghost EXCEPT !.drift = @ \/ Drifted]
                /\ UNCHANGED scan_data
        /\ last' = Call("_scan_loop", FALSE, running_scan, NoSettings, "", exc)
        /\ UNCHANGED <<scanner_settings, module_state, target, current_dummy_data,
                       timer_running, running_scan, scan_start_time,
                       scan_line_interval, scan_stop_requested>>

scan_loop == ScanLoopIdle \/ ScanLoopFinish \/ ScanLoopLine

\* time passes between two slots
Tick ==
    /\ now < MaxClock
    /\ now' = now + 1
    /\ last' = Call("tick", FALSE, None, NoSettings, "", "")
    /\ emitted' = <<>>
    /\ UNCHANGED <<scanner_settings, module_state, target, scan_data,
                   current_dummy_data, timer_running, scan_line_count, running_scan,
                   scan_start_time, scan_line_interval, scan_line_positions,
                   scan_stop_requested, next_line_pending, ghost>>

\* ================================================== multicolor imaging task
\* Model of Task (src/logic/tasks/multicolor_imaging_task.py) with the laser
\* controller logic (src/logic/lasercontrol_logic.py) and the camera logic
\* (src/logic/camera_logic2.py).  The task framework that calls startTask,
\* runTaskStep and cleanupTask, the filter wheel, and the DAQ and camera
\* methods that are not in the source tree are modelled from the specification.
\* runTaskStep blocks on the hardware (settle delays, the fire poll), so the
\* model follows it one hardware call at a time: task_pc is its position, and
\* the step's local variables (i, j, err, ai_read) are 0 outside the step.

\* the lasers of the controller's descriptor table, in the table's order
LaserOrder == <<"laser1", "laser2", "laser3">>
Lasers == {LaserOrder[n] : n \in 1..Len(LaserOrder)}

\* get_laser_dict(): one table of a DAQ controller
LaserDict ==
    [l \in Lasers |->
        [label |-> l,
         wavelength |-> IF l = "laser1" THEN "405 nm"
                        ELSE IF l = "laser2" THEN "488 nm" ELSE "561 nm",
         channel |-> IF l = "laser1" THEN "/Dev1/AO0"
                     ELSE IF l = "laser2" THEN "/Dev1/AO1" ELSE "/Dev1/AO2"]]

\* laser_dict[key]['ao_voltage_range'][1], in volts
AoVoltageMax == 10
\* "while not ai_read <= 2.5", in tenths of a volt
FireThreshold == 25

\* get_entry_nested_dict(nested_dict, val, entry): the entry of every inner
\* dict that holds val, in the order of the outer keys
get_entry_nested_dict(nested_dict, val, entry) ==
    LET Holds(k) == \E f \in DOMAIN nested_dict[k] : nested_dict[k][f] = val
        keep == SelectSeq(LaserOrder, LAMBDA k : k \in DOMAIN nested_dict /\ Holds(k))
    IN  [n \in 1..Len(keep) |-> nested_dict[keep[n]][entry]]

\* _load_user_parameters, lines 238-241: every (wavelength, intensity) of the
\* user's sequence becomes (*labels, intensity)
ResolveSequence(user_sequence) ==
    [n \in 1..Len(user_sequence) |->
        get_entry_nested_dict(LaserDict, user_sequence[n][1], "label")
            \o <<user_sequence[n][2]>>]

\* ---- LaserControlLogic
\* the controller types apply_voltage covers (config option controllertype)
ControllerTypes == {"daq", "fpga", "celesta"}

\* an identifier that is not in the laser dict
UnknownLaser == "laser9"

\* the keys of an intensity dict in insertion order: init_intensity_dict
\* inserts the keys of the laser dict, a later key is appended
KeyOrder(intensity_dict) ==
    SelectSeq(LaserOrder \o <<UnknownLaser>>, LAMBDA k : k \in DOMAIN intensity_dict)

\* the voltage written for an intensity in percent, in hundredths of a volt
Voltage(percent) == percent * AoVoltageMax

\* lumencor_read_intensity_dict, lines 356-368
lumencor_read_intensity_dict(intensity_dict) ==
    LET keys == KeyOrder(intensity_dict)
    IN  [intensity |-> [n \in 1..Len(keys) |-> intensity_dict[keys[n]] * 10],
         laser_on |-> [n \in 1..Len(keys) |->
                          IF intensity_dict[keys[n]] = 0 THEN 0 ELSE 1]]

\* one call of the controller's apply_voltage(value, channel)
Write(value, channel) == [value |-> value, channel |-> channel]

\* lines 177-187: the controller calls apply_voltage makes
ApplyWrites(d) ==
    IF d.controllertype = "daq"
    THEN [n \in 1..Len(LaserOrder) |->
             Write(Voltage(d.intensity_dict[LaserOrder[n]]),
                   LaserDict[LaserOrder[n]].channel)]
    ELSE IF d.controllertype = "fpga"
    THEN [n \in 1..Len(LaserOrder) |->
             Write(d.intensity_dict[LaserOrder[n]], LaserDict[LaserOrder[n]].channel)]
    ELSE LET r == lumencor_read_intensity_dict(d.intensity_dict)
         IN  <<Write(r.intensity, r.laser_on)>>

\* lines 210-215: the controller calls voltage_off makes
OffWrites(d) ==
    IF d.controllertype \in {"daq", "fpga"}
    THEN [n \in 1..Len(LaserOrder) |-> Write(0, LaserDict[LaserOrder[n]].channel)]
    ELSE LET r == lumencor_read_intensity_dict(d.intensity_dict)
         IN  <<Write(r.intensity, [n \in 1..Len(r.laser_on) |-> r.laser_on[n] * 0])>>

\* the level of every laser line after the controller calls writes: the value
\* written to its channel, or (celesta) its intensity if its emission is on
OutputAfter(controllertype, writes) ==
    IF controllertype \in {"daq", "fpga"}
    THEN [l \in Lasers |->
             LET n == CHOOSE n \in 1..Len(LaserOrder) : LaserOrder[n] = l
             IN  writes[n].value]
    ELSE [l \in Lasers |->
             LET n == CHOOSE n \in 1..Len(LaserOrder) : LaserOrder[n] = l
             IN  writes[1].value[n] * writes[1].channel[n]]

\* init_intensity_dict(value), lines 120-124: the dict it returns
init_intensity_dict(value) == [l \in Lasers |-> value]

\* A reset that leaves the map as it is.
reset_intensity_dict_skipped(d) == d

\* lines 133-134
reset_intensity_dict(d) ==
    [d EXCEPT !.intensity_dict = [k \in DOMAIN d.intensity_dict |-> 0]]

\* lines 174-187
apply_voltage(d) ==
    [d EXCEPT !.enabled = TRUE,
              !.output = OutputAfter(d.controllertype, ApplyWrites(d))]

\* line 155: the assignment to the dict; a key that is not in it is added
SetIntensity(d, key, value) ==
    [d EXCEPT !.intensity_dict =
        [k \in DOMAIN d.intensity_dict \cup {key} |->
            IF k = key THEN value ELSE d.intensity_dict[k]]]

\* An update that only prepares the value, whether the lasers are on or not.
update_intensity_dict_map_only(d, key, value) == SetIntensity(d, key, value)

\* lines 154-160; the assignment never raises KeyError
update_intensity_dict(d, key, value) ==
    LET d1 == SetIntensity(d, key, value)
    IN  IF d.enabled THEN apply_voltage(d1) ELSE d1

\* the controller calls of update_intensity_dict
UpdateWrites(d, key, value) ==
    IF d.enabled THEN ApplyWrites(SetIntensity(d, key, value)) ELSE <<>>

\* A switch-off that also clears the intensity map.
voltage_off_clearing(d) ==
    [d EXCEPT !.enabled = FALSE,
              !.intensity_dict = [k \in DOMAIN d.intensity_dict |-> 0],
              !.output = OutputAfter(d.controllertype, OffWrites(d))]

\* lines 209-215
voltage_off(d) ==
    [d EXCEPT !.enabled = FALSE,
              !.output = OutputAfter(d.controllertype, OffWrites(d))]

\* ---- the records of the task actions
TaskCall(op, refused, ret, exc) ==
    [op |-> op, refused |-> refused, ret |-> ret, exc |-> exc]

NewRunHistory(runs) ==
    [runs |-> runs, misses |-> 0, high_reads |-> 0, pass_iters |-> <<>>,
     earlier |-> {}, since_trigger |-> <<>>, triggers |-> 0,
     refused |-> FALSE, aborted |-> FALSE]

\* ---- startTask
\* the hardware calls of an accepted startTask, lines 72-114
StartTaskOps ==
    <<"filter.set_position", "daq.set_up_do_channel", "daq.set_up_ai_channel",
      "camera.abort_acquisition", "camera.set_acquisition_mode",
      "camera.set_trigger_mode", "camera.set_gain", "camera.set_exposure",
      "camera.set_number_kinetics", "camera.set_spool", "camera.set_shutter",
      "camera.start_acquisition">>

\* lines 46-56: the start is refused
StartTaskRefused(cfg) ==
    /\ camera.enabled \/ camera.saving
    /\ ops' = <<>>
    /\ tlast' = TaskCall("startTask", TRUE, "none", "")
    /\ tghost' = [NewRunHistory(tghost.runs + 1) EXCEPT !.refused = TRUE]
    /\ UNCHANGED <<task, daq, camera, filter_position>>

\* lines 59-114
StartTaskAccepted(cfg) ==
    LET seq == ResolveSequence(cfg.imaging_sequence)
    IN  /\ ~camera.enabled /\ ~camera.saving
        /\ task' = [task EXCEPT !.filter_pos = <<cfg.filter_pos>>,
                                !.num_frames = <<cfg.num_frames>>,
                                !.imaging_sequence = seq,
                                !.err_count = <<0>>]
        /\ filter_position' = cfg.filter_pos
        /\ daq' = [daq EXCEPT !.do_task = "open", !.ai_task = "open"]
        /\ camera' = [camera EXCEPT !.acquisition_mode = "KINETICS",
                                    !.trigger_mode = "EXTERNAL",
                                    !.number_kinetics = Len(seq) * cfg.num_frames,
                                    !.spool = TRUE,
                                    !.shutter_open = TRUE,
                                    !.acquiring = TRUE]
        /\ ops' = StartTaskOps
        /\ tlast' = TaskCall("startTask", FALSE, "none", "")
        /\ tghost' = NewRunHistory(tghost.runs + 1)

startTask(cfg) == StartTaskRefused(cfg) \/ StartTaskAccepted(cfg)

\* the framework runs a stopped task: startTask, then the step loop
RunTask(cfg) ==
    /\ task_state = "stopped"
    /\ tghost.runs < MaxRuns
    /\ startTask(cfg)
    /\ task_state' = "running"
    /\ task_pc' = "step"

\* ---- runTaskStep
\* A step that resets the intensity map before it looks at the camera.
StepRefusedAfterReset ==
    /\ task_state = "running" /\ task_pc = "step"
    /\ camera.enabled \/ camera.saving
    /\ task_pc' = "cleanup"
    /\ daq' = reset_intensity_dict(daq)
    /\ ops' = <<"daq.reset_intensity_dict">>
    /\ tlast' = TaskCall("runTaskStep", TRUE, "false", "")
    /\ UNCHANGED <<task_state, task, camera, filter_position, tghost>>

\* lines 122-126: the step returns False at once
StepRefused ==
    /\ task_state = "running" /\ task_pc = "step"
    /\ camera.enabled \/ camera.saving
    /\ task_pc' = "cleanup"
    /\ ops' = <<>>
    /\ tlast' = TaskCall("runTaskStep", TRUE, "false", "")
    /\ UNCHANGED <<task_state, task, daq, camera, filter_position, tghost>>

\* lines 122-132: the step enters the loop over the imaging sequence
StepBegin ==
    /\ task_state = "running" /\ task_pc = "step"
    /\ ~camera.enabled /\ ~camera.saving
    /\ task' = [task EXCEPT !.i = 0, !.j = 0]
    /\ task_pc' = IF Len(task.imaging_sequence) > 0 THEN "prepare" ELSE "cleanup"
    /\ ops' = <<>>
    /\ tlast' = TaskCall("runTaskStep", FALSE,
                         IF Len(task.imaging_sequence) > 0 THEN "none" ELSE "false", "")
    /\ tghost' = [tghost EXCEPT !.pass_iters = <<>>,
                                !.earlier = @ \cup SeqToSet(tghost.pass_iters)]
    /\ UNCHANGED <<task_state, daq, camera, filter_position>>

\* lines 134-139: the intensity map for entry i
StepPrepare ==
    LET entry == task.imaging_sequence[task.i + 1]
        d1 == reset_intensity_dict(daq)
        d2 == update_intensity_dict(d1, entry[1], entry[2])
    IN  /\ task_state = "running" /\ task_pc = "prepare"
        /\ daq' = d2
        /\ task' = [task EXCEPT !.j = 0]
        /\ task_pc' = "apply"
        /\ ops' = <<"daq.reset_intensity_dict", "daq.update_intensity_dict">>
        /\ tlast' = TaskCall("runTaskStep", FALSE, "none", "")
        /\ tghost' = [tghost EXCEPT
                         !.since_trigger = IF daq.enabled THEN Append(@, "on") ELSE @]
        /\ UNCHANGED <<task_state, camera, filter_position>>

\* line 144
StepApply ==
    /\ task_state = "running" /\ task_pc = "apply"
    /\ daq' = apply_voltage(daq)
    /\ task_pc' = "trigger"
    /\ ops' = <<"daq.apply_voltage">>
    /\ tlast' = TaskCall("runTaskStep", FALSE, "none", "")
    /\ tghost' = [tghost EXCEPT !.since_trigger = Append(@, "on")]
    /\ UNCHANGED <<task_state, task, camera, filter_position>>

\* line 145: the trigger is sent and the hardware reports err
StepTrigger(err) ==
    /\ task_state = "running" /\ task_pc = "trigger"
    /\ err < 0 => tghost.misses < MaxMisses
    /\ task' = [task EXCEPT !.err = err]
    /\ task_pc' = "read"
    /\ ops' = <<"daq.send_trigger_and_control_ai">>
    /\ tlast' = TaskCall("runTaskStep", FALSE, "none", "")
    /\ tghost' = [tghost EXCEPT !.since_trigger = <<>>,
                                !.triggers = @ + 1,
                                !.misses = IF err < 0 THEN @ + 1 ELSE @]
    /\ UNCHANGED <<task_state, daq, camera, filter_position>>

\* A poll that takes no reading for a released fire signal.
FireReleasedNever(ai_read) == FALSE

\* A poll that takes every reading for a released fire signal.
FireReleasedAlways(ai_read) == TRUE

\* line 149: the poll ends
FireReleased(ai_read) == ai_read <= FireThreshold

\* lines 148-151: one reading of the fire signal
StepRead(ai_read) ==
    /\ task_state = "running" /\ task_pc = "read"
    /\ ai_read > FireThreshold => tghost.high_reads < MaxHighReads
    /\ task' = [task EXCEPT !.ai_read = ai_read]
    /\ task_pc' = IF ~FireReleased(ai_read) THEN "read" ELSE "off"
    /\ ops' = <<"daq.read_ai_channel">>
    /\ tlast' = TaskCall("runTaskStep", FALSE, "none", "")
    /\ tghost' = [tghost EXCEPT
                     !.high_reads = IF ai_read > FireThreshold THEN @ + 1 ELSE @]
    /\ UNCHANGED <<task_state, daq, camera, filter_position>>

\* A step that gives the task up at a missed trigger.
AfterMissGivesUp(i, j, num_entries, num_frames) ==
    [pc |-> "cleanup", i |-> 0, j |-> 0, ret |-> "false"]

\* A step that carries on with the next frame after a missed trigger.
AfterMissNextFrame(i, j, num_entries, num_frames) ==
    IF j + 1 < num_frames THEN [pc |-> "apply", i |-> i, j |-> j + 1, ret |-> "none"]
    ELSE IF i + 1 < num_entries
         THEN [pc |-> "prepare", i |-> i + 1, j |-> 0, ret |-> "none"]
         ELSE [pc |-> "cleanup", i |-> 0, j |-> 0, ret |-> "false"]

\* lines 158-161: a missed trigger ends the step with True
AfterMiss(i, j, num_entries, num_frames) ==
    [pc |-> "step", i |-> 0, j |-> 0, ret |-> "true"]

\* A step whose "return False" stands inside the loop over the sequence.
AfterFrameReturnsInLoop(i, j, num_entries, num_frames) ==
    IF j + 1 < num_frames THEN [pc |-> "apply", i |-> i, j |-> j + 1, ret |-> "none"]
    ELSE [pc |-> "cleanup", i |-> 0, j |-> 0, ret |-> "false"]

\* the loop headers at lines 142 and 132, and the return at line 165
AfterFrame(i, j, num_entries, num_frames) ==
    IF j + 1 < num_frames THEN [pc |-> "apply", i |-> i, j |-> j + 1, ret |-> "none"]
    ELSE IF i + 1 < num_entries
         THEN [pc |-> "prepare", i |-> i + 1, j |-> 0, ret |-> "none"]
         ELSE [pc |-> "cleanup", i |-> 0, j |-> 0, ret |-> "false"]

\* lines 152-161: laser off, then the check of the trigger's status
StepOff ==
    LET missed == task.err < 0
        num_entries == Len(task.imaging_sequence)
        num_frames == task.num_frames[1]
        nxt == IF missed THEN AfterMiss(task.i, task.j, num_entries, num_frames)
               ELSE AfterFrame(task.i, task.j, num_entries, num_frames)
    IN  /\ task_state = "running" /\ task_pc = "off"
        /\ daq' = voltage_off(daq)
        /\ task' = [task EXCEPT !.i = nxt.i, !.j = nxt.j,
                                !.err = IF nxt.ret = "none" THEN @ ELSE 0,
                                !.ai_read = IF nxt.ret = "none" THEN @ ELSE 0,
                                !.err_count = IF missed THEN <<@[1] + 1>> ELSE @]
        /\ task_pc' = nxt.pc
        /\ ops' = <<"daq.voltage_off">>
        /\ tlast' = TaskCall("runTaskStep", FALSE, nxt.ret, "")
        /\ tghost' = [tghost EXCEPT
                         !.since_trigger = Append(@, "off"),
                         !.pass_iters = IF missed THEN <<>>
                                        ELSE Append(@, <<task.i, task.j>>),
                         !.earlier = IF missed
                                     THEN @ \cup SeqToSet(tghost.pass_iters)
                                            \cup {<<task.i, task.j>>}
                                     ELSE @]
        /\ UNCHANGED <<task_state, camera, filter_position>>

runTaskStep ==
    \/ StepRefused
    \/ StepBegin
    \/ StepPrepare
    \/ StepApply
    \/ \E err \in {-1, 0} : StepTrigger(err)
    \/ \E ai_read \in {FireThreshold, FireThreshold + 5} : StepRead(ai_read)
    \/ StepOff

\* the framework aborts the running task wherever it stands
AbortTask ==
    /\ task_state = "running" /\ task_pc # "cleanup"
    /\ task_pc' = "cleanup"
    /\ task' = [task EXCEPT !.i = 0, !.j = 0, !.err = 0, !.ai_read = 0]
    /\ ops' = <<>>
    /\ tlast' = TaskCall("abort", FALSE, "none", "")
    /\ tghost' = [tghost EXCEPT !.aborted = TRUE]
    /\ UNCHANGED <<task_state, daq, camera, filter_position>>

\* ---- cleanupTask
\* the hardware calls of cleanupTask, lines 177-184
CleanupSteps ==
    <<"daq.voltage_off", "daq.reset_intensity_dict", "daq.close_do_task",
      "daq.close_ai_task", "camera.abort_acquisition", "camera.set_spool",
      "camera.set_acquisition_mode", "camera.set_trigger_mode">>

\* the hardware hw = [daq, camera] after one call of cleanupTask
CleanupStep(name, hw) ==
    IF name = "daq.voltage_off" THEN [hw EXCEPT !.daq = voltage_off(@)]
    ELSE IF name = "daq.reset_intensity_dict"
         THEN [hw EXCEPT !.daq = reset_intensity_dict(@)]
    ELSE IF name = "daq.close_do_task" THEN [hw EXCEPT !.daq.do_task = "closed"]
    ELSE IF name = "daq.close_ai_task" THEN [hw EXCEPT !.daq.ai_task = "closed"]
    ELSE IF name = "camera.abort_acquisition"
         THEN [hw EXCEPT !.camera.acquiring = FALSE]
    ELSE IF name = "camera.set_spool" THEN [hw EXCEPT !.camera.spool = FALSE]
    ELSE IF name = "camera.set_acquisition_mode"
         THEN [hw EXCEPT !.camera.acquisition_mode = "RUN_TILL_ABORT"]
    ELSE [hw EXCEPT !.camera.trigger_mode = "INTERNAL"]

\* the hardware after the first n calls of cleanupTask
RECURSIVE CleanupThrough(_, _)
CleanupThrough(n, hw) ==
    IF n = 0 THEN hw ELSE CleanupStep(CleanupSteps[n], CleanupThrough(n - 1, hw))

\* cleanupTask, lines 175-188, when call number fail raises (0: none does): the
\* calls before it take effect, the calls after it are not made; line 187 reads
\* self.err_count, which only startTask line 86 sets
CleanupOutcome(fail, hw, err_count) ==
    IF fail = 0
    THEN [hw |-> CleanupThrough(Len(CleanupSteps), hw),
          ops |-> CleanupSteps,
          exc |-> IF err_count = None THEN "AttributeError" ELSE ""]
    ELSE [hw |-> CleanupThrough(fail - 1, hw),
          ops |-> SubSeq(CleanupSteps, 1, fail),
          exc |-> "HardwareError"]

\* the framework finishes the task: cleanupTask, then the task is stopped
cleanupTask(fail) ==
    LET out == CleanupOutcome(fail, [daq |-> daq, camera |-> camera], task.err_count)
    IN  /\ task_state = "running" /\ task_pc = "cleanup"
        /\ daq' = out.hw.daq
        /\ camera' = out.hw.camera
        /\ ops' = out.ops
        /\ tlast' = TaskCall("cleanupTask", tghost.refused, "none", out.exc)
        /\ task_state' = "stopped"
        /\ task_pc' = "idle"
        /\ tghost' = [NewRunHistory(tghost.runs) EXCEPT
                         !.refused = tghost.refused,
                         !.aborted = tghost.aborted,
                         !.misses = tghost.misses]
        /\ UNCHANGED <<task, filter_position>>

\* ---- the operator, while no task runs
\* CameraLogic.start_loop / stop_loop
CameraStartLoop ==
    /\ task_state = "stopped" /\ ~camera.enabled
    /\ camera' = [camera EXCEPT !.enabled = TRUE, !.acquiring = TRUE]
    /\ ops' = <<>>
    /\ tlast' = TaskCall("start_loop", FALSE, "none", "")
    /\ UNCHANGED <<task_state, task_pc, task, daq, filter_position, tghost>>

CameraStopLoop ==
    /\ task_state = "stopped" /\ camera.enabled
    /\ camera' = [camera EXCEPT !.enabled = FALSE, !.acquiring = FALSE]
    /\ ops' = <<>>
    /\ tlast' = TaskCall("stop_loop", FALSE, "none", "")
    /\ UNCHANGED <<task_state, task_pc, task, daq, filter_position, tghost>>

\* a video save begins or ends
CameraSaving ==
    /\ task_state = "stopped"
    /\ camera' = [camera EXCEPT !.saving = ~@]
    /\ ops' = <<>>
    /\ tlast' = TaskCall("saving", FALSE, "none", "")
    /\ UNCHANGED <<task_state, task_pc, task, daq, filter_position, tghost>>

\* the laser GUI sets an intensity and switches the lasers on, or switches
\* them off
GuiLaser ==
    /\ task_state = "stopped"
    /\ \/ daq' = apply_voltage(update_intensity_dict(daq, "laser3", 7))
       \/ daq' = voltage_off(daq)
    /\ daq' # daq
    /\ ops' = <<>>
    /\ tlast' = TaskCall("laser_gui", FALSE, "none", "")
    /\ UNCHANGED <<task_state, task_pc, task, camera, filter_position, tghost>>

\* ---- direct calls of LaserControlLogic
\* switched: the switching operation that ran last; enabled: self.enabled when
\* the call began; writes: the controller calls the call made; ret: the dict
\* init_intensity_dict returned
LaserCall(op, key, value, enabled, writes, ret, switched) ==
    [op |-> op, key |-> key, value |-> value, enabled |-> enabled,
     writes |-> writes, ret |-> ret, switched |-> switched]

NoLaserCall == LaserCall("on_activate", "", 0, FALSE, <<>>, None, "none")

\* ---- set_scanner_target_position
TargetChangedEvt(pos_dict) == [sig |-> "sigScannerTargetChanged", pos |-> pos_dict]
\* scanner_position: the target with a noise of at most half a percent of the
\* axis range on every axis
PositionChangedEvt(t) == [sig |-> "sigScannerPositionChanged", near |-> t]

NoTargetCall == [n |-> 0, pos_dict |-> <<>>, err |-> ""]

\* A validation that accepts every axis name.
UnknownAxisIgnored(pos_dict) == 0

\* lines 371-374: the first axis of pos_dict that is no scanner axis, 0 if
\* every axis is one
UnknownAxis(pos_dict) ==
    FirstBad([n \in 1..Len(pos_dict) |-> pos_dict[n][1] \notin AxisSet])

\* ---- OdorCircuitGUI
\* the valves of the status dict the odor logic sends, in the dict's order
ValveOrder == <<"odor_1", "mixing", "3_way">>
Valves == SeqToSet(ValveOrder)

\* config option config_valve: the valve vector of every circuit
\* configuration (the last one repeats configuration 1)
ConfigValves == <<<<0, 0, 0>>, <<1, 0, 0>>, <<1, 1, 0>>, <<1, 0, 0>>>>

\* config option default_quadrant_flow, in tenths of sL/min
DefaultQuadrantFlow == 5

NoAirFlowCall == [name |-> "none", mfc_flow |-> <<>>, config |-> 0]

\* Setpoints of configuration 1 for every configuration that is on.
MfcFlowAlwaysConfig1(index, flow) ==
    IF index = 0 \/ flow = 0 THEN <<0, 0, 0, 0>>
    ELSE <<flow, flow, 2 * flow, 2 * flow>>

\* lines 403-420: the setpoints of the four MFCs
MfcFlow(index, flow) ==
    IF index = 0 \/ flow = 0 THEN <<0, 0, 0, 0>>
    ELSE IF index = 1 THEN <<flow, flow, 2 * flow, 2 * flow>>
    ELSE <<2 * flow, 2 * flow, 4 * flow, 0>>

\* lines 406, 414, 419: the call on the odor logic
AirFlowCall(index, flow) ==
    IF index = 0 \/ flow = 0
    THEN [name |-> "stop_air_flow", mfc_flow |-> <<>>, config |-> 0]
    ELSE [name |-> "start_air_flow", mfc_flow |-> MfcFlow(index, flow),
          config |-> IF index = 1 THEN 1 ELSE 2]

\* A checkbox handler that enables where it is asked to disable.
disable_enable_valves_checkbox_inverted(g, disable) ==
    [g EXCEPT !.valve_checkbox_disabled =
        [v \in Valves |-> IF g.valve_status # None THEN ~disable ELSE @[v]]]

\* disable_enable_valves_checkbox(disable), lines 627-629: setDisabled(disable)
\* on the checkbox of every key of self.valve_status
disable_enable_valves_checkbox(g, disable) ==
    [g EXCEPT !.valve_checkbox_disabled =
        [v \in Valves |-> IF g.valve_status # None THEN disable ELSE @[v]]]

\* disable_enable_odor_pushbuttons(prep, inject, stop), lines 353-357
disable_enable_odor_pushbuttons(g, prep, inject, stop) ==
    [g EXCEPT !.pushbutton_disabled = [prep |-> prep, inject |-> inject, stop |-> stop]]

\* update_arena_config, lines 387-426: the GUI after the handler
update_arena_config(g) ==
    LET off == g.index = 0 \/ g.flow = 0
        g1 == disable_enable_valves_checkbox(g, ~off)
        g2 == IF off THEN disable_enable_odor_pushbuttons(g1, TRUE, TRUE, TRUE)
              ELSE disable_enable_odor_pushbuttons(g1, FALSE, TRUE, TRUE)
    IN  [g2 EXCEPT !.preparing_odor = IF off THEN FALSE ELSE @,
                   !.injecting_odor = IF off THEN FALSE ELSE @,
                   !.setpoint = MfcFlow(g.index, g.flow)]

\* selected_odor_changed(odor, state), lines 438-447
selected_odor_changed(g, odor, state) ==
    [g EXCEPT !.selected_odor = IF state THEN odor ELSE 0]

\* the outcome of a click handler: the GUI afterwards, the call made on the
\* odor logic and the error logged
Clicked(g, logic_call, err) == [g |-> g, logic_call |-> logic_call, err |-> err]

\* A prepare handler that leaves the injection flag as it is.
prepare_odor_clicked_keeps_injecting(g) ==
    IF g.selected_odor = 0
    THEN Clicked(g, None, "You need to select at least one odor")
    ELSE LET g1 == disable_enable_odor_pushbuttons(g, TRUE, FALSE, FALSE)
         IN  IF ~g1.preparing_odor
             THEN Clicked([g1 EXCEPT !.preparing_odor = TRUE],
                          <<"prepare_odor", g.selected_odor>>, "")
             ELSE Clicked(g1, None, "")

\* prepare_odor_clicked, lines 453-474
prepare_odor_clicked(g) ==
    IF g.selected_odor = 0
    THEN Clicked(g, None, "You need to select at least one odor")
    ELSE LET g1 == disable_enable_odor_pushbuttons(g, TRUE, FALSE, FALSE)
         IN  IF ~g1.preparing_odor
             THEN Clicked([g1 EXCEPT !.preparing_odor = TRUE,
                                     !.injecting_odor = FALSE],
                          <<"prepare_odor", g.selected_odor>>, "")
             ELSE Clicked(g1, None, "")

\* An inject handler that does not ask whether an odor is in preparation.
inject_odor_clicked_unchecked(g) ==
    LET g1 == disable_enable_odor_pushbuttons(g, FALSE, TRUE, FALSE)
    IN  IF ~g1.injecting_odor
        THEN Clicked([g1 EXCEPT !.injecting_odor = TRUE,
                                !.preparing_odor = FALSE],
                     <<"inject_odor", 0>>, "")
        ELSE Clicked(g1, None, "")

\* inject_odor_clicked, lines 480-503
inject_odor_clicked(g) ==
    IF ~g.preparing_odor
    THEN Clicked(g, None, "No odor is in preparation")
    ELSE LET g1 == disable_enable_odor_pushbuttons(g, FALSE, TRUE, FALSE)
         IN  IF ~g1.injecting_odor
             THEN Clicked([g1 EXCEPT !.injecting_odor = TRUE,
                                     !.preparing_odor = FALSE],
                          <<"inject_odor", 0>>, "")
             ELSE Clicked(g1, None, "")

\* stop_odor_clicked, lines 508-522
stop_odor_clicked(g) ==
    LET g1 == disable_enable_odor_pushbuttons(g, FALSE, TRUE, TRUE)
    IN  Clicked([g1 EXCEPT !.preparing_odor = FALSE, !.injecting_odor = FALSE],
                <<"stop_odor", g.selected_odor>>, "")

\* A lookup that takes the last matching entry of the table.
MatchingConfigLast(status_list) ==
    LET hits == {n \in 1..Len(ConfigValves) : ConfigValves[n] = status_list}
    IN  IF hits = {} THEN None
        ELSE <<(CHOOSE n \in hits : \A m \in hits : n >= m) - 1>>

\* lines 644-649: the lowest index of the table whose vector is status_list,
\* None if there is none
MatchingConfig(status_list) ==
    LET hits == {n \in 1..Len(ConfigValves) : ConfigValves[n] = status_list}
    IN  IF hits = {} THEN None
        ELSE <<(CHOOSE n \in hits : \A m \in hits : n <= m) - 1>>

\* display_circuit_config, lines 637-660: the scheme on display afterwards
display_circuit_config(g, status_list) ==
    IF g.index > 0
    THEN LET matching_config == MatchingConfig(status_list)
         IN  IF matching_config # None THEN [g EXCEPT !.scheme = matching_config[1]]
             ELSE g
    ELSE [g EXCEPT !.scheme = 0]

\* update_valves_status, lines 611-619
update_valves_status(g, status_list) ==
    [g EXCEPT !.valve_status = <<status_list>>,
              !.valve_checkbox_checked =
                  [v \in Valves |->
                      LET n == CHOOSE n \in 1..Len(ValveOrder) : ValveOrder[n] = v
                      IN  status_list[n] # 0]]

GuiCall(op, status, signals, matching) ==
    [op |-> op, status |-> status, signals |-> signals, matching |-> matching,
     logic_call |-> None, err |-> ""]

\* the record of a click on one of the odor push buttons: the call it made on
\* the odor logic (None if it made none) and the error it logged
OdorClick(op, logic_call, err) ==
    [GuiCall(op, None, <<>>, None) EXCEPT !.logic_call = logic_call, !.err = err]

\* the GUI after __init__ and init_flowcontrol_main_window (lines 287-329),
\* before on_activate sets the default flow
NewOdorGui ==
    [index |-> 0, flow |-> 0, valve_status |-> None,
     valve_checkbox_disabled |-> [v \in Valves |-> FALSE],
     valve_checkbox_checked |-> [v \in Valves |-> FALSE],
     pushbutton_disabled |-> [prep |-> TRUE, inject |-> TRUE, stop |-> TRUE],
     preparing_odor |-> FALSE, injecting_odor |-> FALSE, selected_odor |-> 0,
     setpoint |-> <<0, 0, 0, 0>>, scheme |-> 0]

\* on_activate, lines 202-203
InitOther ==
    /\ laser_call = NoLaserCall
    /\ target_call = NoTargetCall
    /\ odor_gui = update_arena_config([NewOdorGui EXCEPT !.flow = DefaultQuadrantFlow])
    /\ odor_logic = [measuring_flowrate |-> FALSE,
                     air_flow |-> AirFlowCall(0, DefaultQuadrantFlow)]
    /\ gui_call = GuiCall("on_activate", None, <<>>, None)

\* ---- the state after the modules are activated and the Task is constructed
InitTaskOn(controllertype) ==
    /\ task_state = "stopped"
    /\ task_pc = "idle"
    /\ task = [filter_pos |-> None, imaging_sequence |-> <<>>, num_frames |-> None,
               err_count |-> None, i |-> 0, j |-> 0, err |-> 0, ai_read |-> 0]
    /\ daq = [controllertype |-> controllertype, enabled |-> FALSE,
              intensity_dict |-> init_intensity_dict(0),
              output |-> [l \in Lasers |-> 0],
              do_task |-> "closed", ai_task |-> "closed"]
    /\ camera = [enabled |-> FALSE, saving |-> FALSE,
                 acquisition_mode |-> "RUN_TILL_ABORT", trigger_mode |-> "INTERNAL",
                 number_kinetics |-> 0, spool |-> FALSE, shutter_open |-> FALSE,
                 acquiring |-> FALSE]
    /\ filter_position = 1
    /\ ops = <<>>
    /\ tlast = TaskCall("on_activate", FALSE, "none", "")
    /\ tghost = NewRunHistory(0)

\* the imaging task needs the DAQ
InitTask == InitTaskOn("daq")

\* ------------------------------------------------------------------- Init
InitSettings ==
    [scan_axes |-> Combinations2,
     pixel_clock_frequency |-> InitPixelClock,
     backscan_points |-> InitBackscanPoints,
     scan_resolution |-> [a \in AxisSet |-> MaxRes],
     scan_range |-> [a \in AxisSet |->
                        <<Constraint(a).min_value, Constraint(a).max_value>>]]

NoLineCall ==
    [n |-> 0, y_index |-> None, x_index |-> None, size |-> 0, value |-> 0,
     position_axes |-> {}, data_channels |-> {}, exc |-> ""]

\* The state after __init__ and on_activate, for one outcome s of the random
\* draws of the settings
InitConfocal(s) ==
    /\ module_state = "idle"
    /\ scanner_settings = s
    /\ target = [a \in AxisSet |-> PosScale]
    /\ scan_data = [p \in SeqToSet(Combinations2) |-> NewScanData(p, s)]
    /\ current_dummy_data = None
    /\ timer_running = TRUE
    /\ scan_line_count = 0
    /\ running_scan = None
    /\ scan_start_time = 0
    /\ scan_line_interval = None
    /\ scan_line_positions = EmptyDict
    /\ scan_stop_requested = TRUE
    /\ next_line_pending = 0
    /\ now = 0
    /\ last = Call("on_activate", FALSE, None, NoSettings, "", "")
    /\ emitted = <<>>
    /\ ghost = [start_settings |-> s, line_events |-> 0, drift |-> FALSE]
    /\ calls = [starts |-> 0, updates |-> 0]
    /\ line_call = NoLineCall

InitFrom(s) == InitConfocal(s) /\ InitTask /\ InitOther

Init == InitFrom(InitSettings)

\* ----------------------------------------------------------------- inputs
\* a configured pair, a pair in the wrong order, a pair with an unknown axis
ToggleAxesInputs == {<<"x", "y">>, <<"y", "x">>, <<"x", "w">>}

Update(field, value) ==
    [f \in DOMAIN NoSettings |-> IF f = field THEN <<value>> ELSE None]

\* settings updates issued while the scan machine runs
ScanSettingsInputs ==
    {Update("scan_resolution", <<<<a, r>>>>) : a \in {"x", "y"}, r \in {1, 2, MaxRes}}
    \cup {Update("pixel_clock_frequency", h) : h \in {30, 60}}

StartRequest ==
    /\ calls.starts < MaxStarts
    /\ \E a \in ToggleAxesInputs : toggle_scan(a, TRUE)
    /\ calls' = [calls EXCEPT !.starts = @ + 1]
    /\ UNCHANGED nonScanVars

StopRequest ==
    /\ toggle_scan(<<"x", "y">>, FALSE)
    /\ UNCHANGED <<calls, nonScanVars>>

NextLine ==
    /\ scan_loop
    /\ UNCHANGED <<calls, nonScanVars>>

SettingsRequest ==
    /\ calls.updates < MaxUpdates
    /\ \E in \in ScanSettingsInputs : set_scanner_settings(in)
    /\ calls' = [calls EXCEPT !.updates = @ + 1]
    /\ UNCHANGED nonScanVars

ClockTick ==
    /\ Tick
    /\ UNCHANGED <<calls, nonScanVars>>

Next == StartRequest \/ StopRequest \/ NextLine \/ SettingsRequest \/ ClockTick

Spec == Init /\ [][Next]_vars

\* the scan machine with the queued connection of line 249 delivering every
\* queued next-line event
SpecLive == Init /\ [][Next]_vars /\ WF_vars(NextLine)

\* ------------------------------------------- the settings setter on its own
Opt(S) == {None} \cup {<<v>> : v \in S}

\* a pair and a 1-tuple; an unknown axis; a tuple of length 3
AxesChoices ==
    {<<<<"x", "y">>, <<"z">>>>, <<<<"x", "w">>>>, <<<<"x", "y", "z">>>>}
\* in halves: 0.5, 1.5, 30
ClockChoices == {1, 3, 60}
\* in halves: 0.5, 2.5
BackscanChoices == {1, 5}
\* a valid axis, a valid axis followed by one below the minimum, an unknown axis
ResChoices ==
    {<<<<"x", 2>>>>, <<<<"x", 2>>, <<"y", 1>>>>, <<<<"w", MaxRes>>>>}
\* within the limits, below the minimum, above the maximum, two axes at once
RangeChoices ==
    {<<<<"x", <<-1, 1>>>>>>, <<<<"x", <<-AxisLimit - 1, 1>>>>>>,
     <<<<"x", <<0, AxisLimit + 1>>>>>>,
     <<<<"y", <<1, -1>>>>, <<"z", <<0, 1>>>>>>}

\* updates that supply at most two of the five fields
SettingsInputs ==
    {in \in [scan_axes : Opt(AxesChoices),
             pixel_clock_frequency : Opt(ClockChoices),
             backscan_points : Opt(BackscanChoices),
             scan_resolution : Opt(ResChoices),
             scan_range : Opt(RangeChoices)] :
        Cardinality({f \in DOMAIN in : in[f] # None}) <= 2}

SettingsCall ==
    /\ \E in \in SettingsInputs : set_scanner_settings(in)
    /\ UNCHANGED <<calls, nonScanVars>>

NextSettings == SettingsCall

SpecSettings == Init /\ [][NextSettings]_vars

\* ------------------------------------------------ add_line_data on its own
\* the settings with every pair of resolutions for x and y
ResolutionDraws ==
    {[InitSettings EXCEPT !.scan_resolution =
         [a \in AxisSet |-> IF a = "x" THEN rx ELSE IF a = "y" THEN ry ELSE MaxRes]] :
       rx \in min_resolution..MaxRes, ry \in min_resolution..MaxRes}

InitScanData == \E s \in ResolutionDraws : InitFrom(s)

\* an index not given, the first line, the second line
IndexChoices == {None, <<0>>, <<1>>}
\* all axes, or one axis missing
PositionAxesChoices == {AxisSet, AxisSet \ {"phi"}}
\* all channels, or one channel missing
DataChannelsChoices == {Channels, {"fluorescence"}}

\* the buffer of the pair the calls are made on
LineBuffer == <<"x", "y">>

\* one call of add_line_data on the buffer of (x, y) with lines of size n that
\* hold v in every channel and 10 + v in every axis
AddLineCall ==
    /\ line_call.n < MaxLineCalls
    /\ \E y_index \in IndexChoices, x_index \in IndexChoices,
          n \in min_resolution..MaxRes, v \in 1..2,
          pa \in PositionAxesChoices, dc \in DataChannelsChoices :
          LET sd == scan_data[LineBuffer]
              position == [a \in pa |-> Full(n, 10 + v)]
              data == [c \in dc |-> Full(n, v)]
              exc == add_line_data_raises(sd, position, data, y_index, x_index)
          IN  /\ scan_data' =
                    IF exc = ""
                    THEN [scan_data EXCEPT
                            ![LineBuffer] = add_line_data(sd, position, data,
                                                          y_index, x_index)]
                    ELSE scan_data
              /\ line_call' = [n |-> line_call.n + 1, y_index |-> y_index,
                               x_index |-> x_index, size |-> n, value |-> v,
                               position_axes |-> pa, data_channels |-> dc,
                               exc |-> exc]
    /\ UNCHANGED <<module_state, scanner_settings, target, current_dummy_data,
                   timer_running, scan_line_count, running_scan, scan_start_time,
                   scan_line_interval, scan_line_positions, scan_stop_requested,
                   next_line_pending, now, last, emitted, ghost, calls, taskVars,
                   otherVars>>

NextScanData == AddLineCall

SpecScanData == InitScanData /\ [][NextScanData]_vars

\* ------------------------------------------------ the imaging task on its own
\* the state of the confocal logic
confocalVars == <<scanner_settings, scanVars, last, emitted, calls, line_call>>

\* user configurations: two lasers in turn, or the same laser twice
SequenceChoices ==
    {<<<<"405 nm", 3>>, <<"488 nm", 5>>>>, <<<<"405 nm", 3>>, <<"405 nm", 5>>>>}

TaskConfigs ==
    [imaging_sequence : SequenceChoices, num_frames : 1..MaxFrames, filter_pos : {2}]

TaskRun ==
    /\ \E cfg \in TaskConfigs : RunTask(cfg)
    /\ UNCHANGED <<confocalVars, otherVars>>

TaskStep ==
    /\ runTaskStep
    /\ UNCHANGED <<confocalVars, otherVars>>

TaskAbort ==
    /\ AbortTask
    /\ UNCHANGED <<confocalVars, otherVars>>

TaskCleanup ==
    /\ cleanupTask(0)
    /\ UNCHANGED <<confocalVars, otherVars>>

Operator ==
    /\ CameraStartLoop \/ CameraStopLoop \/ CameraSaving \/ GuiLaser
    /\ UNCHANGED <<confocalVars, otherVars>>

NextTask == TaskRun \/ TaskStep \/ TaskAbort \/ TaskCleanup \/ Operator

SpecTask == Init /\ [][NextTask]_vars

\* the task with a step that keeps running: every hardware call of the step
\* returns, and the framework calls the step again while it returns True
SpecTaskLive == Init /\ [][NextTask]_vars /\ WF_vars(TaskStep)

\* ---------------------------------- the imaging task on failing hardware
\* any one hardware call of cleanupTask may raise
TaskCleanupFaulty ==
    /\ \E fail \in 0..Len(CleanupSteps) : cleanupTask(fail)
    /\ UNCHANGED <<confocalVars, otherVars>>

NextTaskFaulty == TaskRun \/ TaskStep \/ TaskAbort \/ TaskCleanupFaulty

SpecTaskFaulty == Init /\ [][NextTaskFaulty]_vars

\* ------------------------------------------ the laser control logic on its own
\* everything but daq and laser_call
laserFrame == <<confocalVars, task_state, task_pc, task, camera, filter_position,
                ops, tlast, tghost, target_call, odor_gui, odor_logic, gui_call>>

\* intensities in percent: the ends of the range, a value inside, one above
IntensityChoices == {0, 40, 100, 150}
KeyChoices == Lasers \cup {UnknownLaser}

LaserInitCall ==
    /\ \E value \in IntensityChoices :
          laser_call' = LaserCall("init_intensity_dict", "", value, daq.enabled, <<>>,
                                  <<init_intensity_dict(value)>>, laser_call.switched)
    /\ UNCHANGED <<daq, laserFrame>>

LaserReset ==
    /\ daq' = reset_intensity_dict(daq)
    /\ laser_call' = LaserCall("reset_intensity_dict", "", 0, daq.enabled, <<>>, None,
                               laser_call.switched)
    /\ UNCHANGED laserFrame

LaserUpdate ==
    /\ \E key \in KeyChoices, value \in IntensityChoices :
          /\ daq' = update_intensity_dict(daq, key, value)
          /\ laser_call' = LaserCall("update_intensity_dict", key, value, daq.enabled,
                                     UpdateWrites(daq, key, value), None,
                                     IF daq.enabled THEN "apply_voltage"
                                     ELSE laser_call.switched)
    /\ UNCHANGED laserFrame

LaserApply ==
    /\ daq' = apply_voltage(daq)
    /\ laser_call' = LaserCall("apply_voltage", "", 0, daq.enabled, ApplyWrites(daq),
                               None, "apply_voltage")
    /\ UNCHANGED laserFrame

LaserOff ==
    /\ daq' = voltage_off(daq)
    /\ laser_call' = LaserCall("voltage_off", "", 0, daq.enabled, OffWrites(daq),
                               None, "voltage_off")
    /\ UNCHANGED laserFrame

InitLaser ==
    \E controllertype \in ControllerTypes :
        InitConfocal(InitSettings) /\ InitTaskOn(controllertype) /\ InitOther

NextLaser == LaserInitCall \/ LaserReset \/ LaserUpdate \/ LaserApply \/ LaserOff

SpecLaser == InitLaser /\ [][NextLaser]_vars

\* ------------------------------------- set_scanner_target_position on its own
\* lines 370-381: the target, the error logged and the signals emitted
SetTargetResult(t, pos_dict) ==
    IF UnknownAxis(pos_dict) > 0
    THEN [target |-> t, err |-> "Unknown scanner axis", emitted |-> <<>>]
    ELSE LET u == DictUpdate(t, pos_dict)
         IN  [target |-> u, err |-> "",
              emitted |-> <<TargetChangedEvt(pos_dict), PositionChangedEvt(u)>>]

\* position dicts of one or two entries over three scanner axes and an
\* unknown axis
TargetPairs == {"x", "y", "phi", "w"} \X {0, PosScale}
TargetInputs ==
    {<<p>> : p \in TargetPairs}
        \cup {pq \in TargetPairs \X TargetPairs : pq[1][1] # pq[2][1]}

TargetCall ==
    /\ \E pos_dict \in TargetInputs :
          LET r == SetTargetResult(target, pos_dict)
          IN  /\ target' = r.target
              /\ emitted' = r.emitted
              /\ last' = Call("set_scanner_target_position", FALSE, None, NoSettings,
                              r.err, "")
              /\ target_call' = [n |-> 1, pos_dict |-> pos_dict, err |-> r.err]
    /\ UNCHANGED <<module_state, scanner_settings, scan_data, current_dummy_data,
                   timer_running, scan_line_count, running_scan, scan_start_time,
                   scan_line_interval, scan_line_positions, scan_stop_requested,
                   next_line_pending, now, ghost, calls, line_call, taskVars,
                   laser_call, odor_gui, odor_logic, gui_call>>

NextTarget == TargetCall

SpecTarget == Init /\ [][NextTarget]_vars

\* ------------------------------------------------ the odor circuit GUI on its own
odorFrame == <<confocalVars, taskVars, laser_call, target_call>>

\* the items of comboBox_quadrants_config
IndexRange == 0..2
\* values of doubleSpinBox_quadrant_flow, in tenths of sL/min
FlowChoices == {0, 5, 20}
\* the valve vectors the odor logic reports
StatusChoices == [1..Len(ValveOrder) -> {0, 1}]

\* lines 390-394 and 428-430: a running flow measurement is suspended and
\* restarted
ArenaSignals ==
    IF odor_logic.measuring_flowrate
    THEN <<"sigStopFlowMeasure", "sigStartFlowMeasure">> ELSE <<>>

\* update_arena_config on the widgets' values index and flow
ArenaConfig(op, index, flow) ==
    /\ odor_gui' = update_arena_config([odor_gui EXCEPT !.index = index, !.flow = flow])
    /\ odor_logic' = [odor_logic EXCEPT !.air_flow = AirFlowCall(index, flow)]
    /\ gui_call' = GuiCall(op, None, ArenaSignals, None)

\* comboBox_quadrants_config.currentIndexChanged
ConfigIndexChanged ==
    /\ \E index \in IndexRange :
          /\ index # odor_gui.index
          /\ ArenaConfig("currentIndexChanged", index, odor_gui.flow)
    /\ UNCHANGED odorFrame

\* doubleSpinBox_quadrant_flow.editingFinished
FlowEdited ==
    /\ \E flow \in FlowChoices : ArenaConfig("editingFinished", odor_gui.index, flow)
    /\ UNCHANGED odorFrame

\* sigUpdateValveState of the odor logic: update_valves_status, then
\* display_circuit_config (lines 300-301)
ValveStateUpdate ==
    /\ \E status_list \in StatusChoices :
          /\ odor_gui' = display_circuit_config(
                             update_valves_status(odor_gui, status_list), status_list)
          /\ gui_call' = GuiCall("sigUpdateValveState", <<status_list>>, <<>>,
                                 IF odor_gui.index > 0 THEN MatchingConfig(status_list)
                                 ELSE None)
    /\ UNCHANGED <<odor_logic, odorFrame>>

\* measure_flow_clicked, lines 684-691, and the odor logic starting or
\* stopping the measurement on the signal
MeasureFlowClicked ==
    /\ odor_logic' = [odor_logic EXCEPT !.measuring_flowrate = ~@]
    /\ gui_call' = GuiCall("measure_flow_clicked", None,
                           IF odor_logic.measuring_flowrate
                           THEN <<"sigStopFlowMeasure">> ELSE <<"sigStartFlowMeasure">>,
                           None)
    /\ UNCHANGED <<odor_gui, odorFrame>>

\* the odor check boxes that are exercised: the first and the last of the four
OdorChoices == {1, 4}

\* odorN_CheckBox.toggled (lines 304-307): a box is checked, or the checked box
\* is unchecked
SelectedOdorChanged ==
    /\ \E odor \in OdorChoices, state \in BOOLEAN :
          /\ state <=> odor # odor_gui.selected_odor
          /\ odor_gui' = selected_odor_changed(odor_gui, odor, state)
          /\ gui_call' = OdorClick("selected_odor_changed", None, "")
    /\ UNCHANGED <<odor_logic, odorFrame>>

\* The three click handlers are slots of the GUI object; they are taken in
\* every state, whether or not the button connected to them is enabled.  The
\* buttons' texts and check marks and the elapsed-time displays are not
\* modelled.
OdorClicked(op, r) ==
    /\ odor_gui' = r.g
    /\ gui_call' = OdorClick(op, r.logic_call, r.err)

\* Prepare_odor_pushButton.clicked (line 292)
PrepareOdorClicked ==
    /\ OdorClicked("prepare_odor_clicked", prepare_odor_clicked(odor_gui))
    /\ UNCHANGED <<odor_logic, odorFrame>>

\* Inject_odor_pushButton.clicked (line 294)
InjectOdorClicked ==
    /\ OdorClicked("inject_odor_clicked", inject_odor_clicked(odor_gui))
    /\ UNCHANGED <<odor_logic, odorFrame>>

\* Stop_odor_pushButton.clicked (line 296)
StopOdorClicked ==
    /\ OdorClicked("stop_odor_clicked", stop_odor_clicked(odor_gui))
    /\ UNCHANGED <<odor_logic, odorFrame>>

NextOdor ==
    \/ ConfigIndexChanged
    \/ FlowEdited
    \/ ValveStateUpdate
    \/ MeasureFlowClicked
    \/ SelectedOdorChanged
    \/ PrepareOdorClicked
    \/ InjectOdorClicked
    \/ StopOdorClicked

SpecOdor == Init /\ [][NextOdor]_vars

\* =================================================================== claims
\* the program state of the scan machine (everything but the clock and the
\* records of the last slot)
programState == <<module_state, scanner_settings, target, scan_data,
                  current_dummy_data, timer_running, scan_line_count, running_scan,
                  scan_start_time, scan_line_interval, scan_line_positions,
                  scan_stop_requested, next_line_pending>>

EmitsSignal(es, sig) == \E i \in 1..Len(es) : es[i].sig = sig

\* C1: a start request while the module is locked logs the "already in
\* progress" error and changes nothing: running axes, line count, start time,
\* line interval, stop flag, every ScanData buffer and the queue of next-line
\* events keep their values, and no signal is emitted.
C1_StartWhileRunningRejected ==
    [][(last'.op = "toggle_scan" /\ last'.start /\ module_state = "locked")
        => /\ last'.err = "Unable to start scan. Scan already in progress."
           /\ last'.exc = ""
           /\ UNCHANGED programState
           /\ emitted' = <<>>]_vars

\* a start request rejected in the middle of a scan
C1_Witness ==
    /\ last.op = "toggle_scan" /\ last.start
    /\ last.err = "Unable to start scan. Scan already in progress."
    /\ module_state = "locked"
    /\ scan_line_count > 0
    /\ next_line_pending = 1

\* C2: a stop request on an idle machine logs an error and changes nothing; no
\* scan-state-changed is emitted, so any number of such requests in a row
\* leaves the machine where it was.
C2_StopWhileIdleNoChange ==
    [][(last'.op = "toggle_scan" /\ ~last'.start /\ module_state = "idle")
        => /\ last'.err = "Unable to stop scan. No scan running."
           /\ UNCHANGED programState
           /\ emitted' = <<>>]_vars

\* a stop request on a machine that is idle after a scan that ran to its end
C2_Witness ==
    /\ last.op = "toggle_scan" /\ ~last.start
    /\ last.err = "Unable to stop scan. No scan running."
    /\ module_state = "idle"
    /\ ~scan_stop_requested
    /\ scan_line_count > 0

\* resolution of the running scan when it was started
StartRes == <<ghost.start_settings.scan_resolution[running_scan[1]],
              ghost.start_settings.scan_resolution[running_scan[2]]>>

\* the last slot was a scan-loop iteration that wrote a line
LineWritten == last.op = "_scan_loop" /\ emitted = <<ScanDataEvt(running_scan)>>

\* the last slot was the scan-loop iteration that ended a scan nobody stopped
EndedUnstopped ==
    last.op = "_scan_loop" /\ module_state = "idle" /\ ~scan_stop_requested

\* C3: a scan started with resolution (R_x, R_y) and never asked to stop emits
\* exactly R_y line-data-changed events before it returns to Idle, every line
\* has length R_x, and line_count goes up by one per event from 0 to R_y.
C3_ExactlyRyLines ==
    /\ LineWritten =>
          /\ scan_line_count = ghost.line_events
          /\ \A c \in Channels : Len(scan_data[running_scan].data[c]) = StartRes[1]
    /\ EndedUnstopped =>
          /\ ghost.line_events = StartRes[2]
          /\ scan_line_count = StartRes[2]

\* The same, for the scans during which no iteration read a resolution other
\* than that of the scan start (this holds).
C3_WithoutSettingsChange == ~ghost.drift => C3_ExactlyRyLines

\* C4: a stop request on a running scan only sets stop_requested; the next
\* scan-loop iteration sees the flag before it computes a line, goes to Idle and
\* emits scan-state-changed(false); once the flag is set, no line is written and
\* no line-data-changed is emitted for that scan.
C4_CooperativeStop ==
    [][/\ (last'.op = "toggle_scan" /\ ~last'.start /\ module_state = "locked")
            => /\ scan_stop_requested'
               /\ module_state' = "locked"
               /\ emitted' = <<>>
               /\ UNCHANGED <<scanner_settings, target, scan_data, current_dummy_data,
                              timer_running, scan_line_count, running_scan,
                              scan_start_time, scan_line_interval,
                              scan_line_positions, next_line_pending>>
       /\ (last'.op = "_scan_loop" /\ module_state = "locked" /\ scan_stop_requested)
            => /\ module_state' = "idle"
               /\ emitted' = <<ScanStateEvt(FALSE, running_scan)>>
               /\ UNCHANGED <<scan_data, scan_line_count>>
       /\ (module_state = "locked" /\ scan_stop_requested)
            => /\ UNCHANGED <<scan_data, scan_line_count>>
               /\ ~EmitsSignal(emitted', "sigScanDataChanged")]_vars

\* a scan stopped after its first line and before its last
C4_Witness ==
    /\ last.op = "_scan_loop"
    /\ module_state = "idle"
    /\ scan_stop_requested
    /\ emitted = <<ScanStateEvt(FALSE, running_scan)>>
    /\ scan_line_count > 0
    /\ scan_line_count < StartRes[2]
    /\ ~ghost.drift

\* An update all of whose supplied fields are within the constraints: axes
\* known and in tuples of one or two, numbers >= 1 (2 halves), resolutions and
\* ranges within the limits of their axis.
ValidUpdate(in) ==
    /\ in.scan_axes # None =>
          \A i \in 1..Len(in.scan_axes[1]) :
             LET a == in.scan_axes[1][i]
             IN  Len(a) \in {1, 2} /\ \A j \in 1..Len(a) : a[j] \in AxisSet
    /\ in.pixel_clock_frequency # None => in.pixel_clock_frequency[1] >= 2
    /\ in.backscan_points # None => in.backscan_points[1] >= 2
    /\ in.scan_resolution # None =>
          \A p \in SeqToSet(in.scan_resolution[1]) :
             p[1] \in AxisSet /\ p[2] >= min_resolution
    /\ in.scan_range # None =>
          \A p \in SeqToSet(in.scan_range[1]) :
             /\ p[1] \in AxisSet
             /\ \A v \in {p[2][1], p[2][2]} : -AxisLimit <= v /\ v <= AxisLimit

\* the values an update supplies for a key of one of its dicts
SuppliedFor(field, key) ==
    IF field = None THEN {} ELSE {p[2] : p \in {q \in SeqToSet(field[1]) : q[1] = key}}

\* after the step, the dict holds the supplied value for every supplied key and
\* the previous value for every other key
DictReadBack(field, before, after) ==
    /\ DOMAIN after = DOMAIN before
    /\ \A k \in DOMAIN before :
          IF SuppliedFor(field, k) = {} THEN after[k] = before[k]
          ELSE after[k] \in SuppliedFor(field, k)

\* what the claim and its amendment agree on, for the step from s to t
ReadBackCommon(in, s, t) ==
    /\ t.scan_axes = IF in.scan_axes = None THEN s.scan_axes ELSE in.scan_axes[1]
    /\ DictReadBack(in.scan_resolution, s.scan_resolution, t.scan_resolution)
    /\ DictReadBack(in.scan_range, s.scan_range, t.scan_range)

\* a number supplied in halves is read back as it was supplied
ReadBackNumber(field, before, after) ==
    IF field = None THEN after = before ELSE 2 * after = field[1]

\* a number supplied in halves is read back cut down to an integer
ReadBackTruncated(field, before, after) ==
    IF field = None THEN after = before
    ELSE 2 * after <= field[1] /\ field[1] < 2 * after + 2

\* C5: an update with an invalid field changes no field of the stored settings.
C5_AtomicUpdate ==
    [][(last'.op = "set_scanner_settings" /\ ~ValidUpdate(last'.settings))
        => scanner_settings' = scanner_settings]_vars

C5_Witness ==
    /\ last.op = "set_scanner_settings"
    /\ last.err = "Resolution to set not within allowed boundaries."
    /\ last.settings.pixel_clock_frequency = <<60>>
    /\ scanner_settings.pixel_clock_frequency = 30

\* C7: a start request for an axis pair that is not one of the configured
\* scan_axes is rejected with no state change: the machine stays Idle, the
\* position timer keeps running and no scan-state-changed is emitted.
C7_InvalidAxesRejected ==
    [][(/\ last'.op = "toggle_scan" /\ last'.start
        /\ module_state = "idle"
        /\ last'.axes \notin SeqToSet(scanner_settings.scan_axes))
        => /\ module_state' = "idle"
           /\ timer_running' = timer_running
           /\ ~EmitsSignal(emitted', "sigScanStateChanged")
           /\ UNCHANGED programState]_vars

\* C8: a settings update accepted during a scan changes neither the number of
\* lines the scan writes nor the length of its lines, and no scan-loop
\* iteration fails.
C8_SnapshotUsed ==
    last.op = "_scan_loop" =>
        /\ last.exc = ""
        /\ LineWritten =>
              \A a \in AxisSet : Len(scan_line_positions[a]) = StartRes[1]
        /\ EndedUnstopped => scan_line_count = StartRes[2]

\* C9: the slow-axis position recorded for line k (0-based) of R_y lines over
\* the range (y_min, y_max) is y_min + k * (y_max - y_min) / (R_y - 1).
C9_SlowAxisInterpolated ==
    LineWritten =>
        LET sd == scan_data[running_scan]
            k == scan_line_count - 1
            R_y == sd.resolution[2]
            y_min == sd.target_ranges[2][1]
            y_max == sd.target_ranges[2][2]
        IN  \A i \in 1..sd.resolution[1] :
               (R_y - 1) * sd.position_data[running_scan[2]][i][k + 1]
                  = PosScale * ((R_y - 1) * y_min + k * (y_max - y_min))

\* C10: with line_interval = resolution[fast_axis] / pixel_clock_frequency fixed
\* at scan start, line k (line_count after the increment) is not acquired or
\* written before start_time + k * line_interval.  Times are in quanta of
\* 1/QuantaPerSecond s; both sides are multiplied by the pixel clock.
C10_LinePacing ==
    LET pcf == ghost.start_settings.pixel_clock_frequency
    IN  /\ (module_state = "locked" /\ next_line_pending > 0)
              => scan_line_interval = <<StartRes[1], pcf>>
        /\ (last.op = "_scan_loop" /\ module_state = "locked")
              => now * pcf >= scan_start_time * pcf
                                + QuantaPerSecond * scan_line_count * StartRes[1]

\* the second line of a scan started late at 2 quanta per line, written on its
\* deadline after the pixel clock was changed during the scan
C10_Witness ==
    /\ LineWritten
    /\ ghost.start_settings.pixel_clock_frequency = 15
    /\ scanner_settings.pixel_clock_frequency = 30
    /\ StartRes[1] = 3
    /\ scan_line_count = 2
    /\ scan_start_time = 1
    /\ now = scan_start_time + 4

\* column j (1-based) of a two-dimensional array
Column(arr, j) == [i \in DOMAIN arr |-> arr[i][j]]

\* the step is a scan-loop iteration that wrote a line
WritesLine == last'.op = "_scan_loop" /\ EmitsSignal(emitted', "sigScanDataChanged")

\* C11: within one scan the n-th line write targets index n-1 and no other
\* index; the index was not written before in this scan (its column still holds
\* the zeros of the fresh buffer), so every index is written at most once; it
\* lies in 0..R_y-1; and the write happens inside the scan lock, one event at a
\* time.
C11_SequentialLineWrites ==
    [][WritesLine =>
         LET n == ghost'.line_events
             sd == scan_data[running_scan]
             td == scan_data'[running_scan]
         IN  /\ n = ghost.line_events + 1
             /\ scan_line_count' = n
             /\ n <= sd.resolution[2]
             /\ module_state = "locked" /\ module_state' = "locked"
             /\ next_line_pending = 1 /\ next_line_pending' = 1
             /\ running_scan' = running_scan
             /\ \A k \in DOMAIN scan_data \ {running_scan} : scan_data'[k] = scan_data[k]
             /\ \A c \in Channels :
                   /\ \A j \in 1..sd.resolution[2] :
                         j # n => Column(td.data[c], j) = Column(sd.data[c], j)
                   /\ \A i \in 1..sd.resolution[1] :
                         sd.data[c][i][n] = 0 /\ td.data[c][i][n] # 0
             /\ \A a \in AxisSet :
                   \A j \in 1..sd.resolution[2] :
                      j # n => Column(td.position_data[a], j)
                                  = Column(sd.position_data[a], j)]_vars

\* the last line of a scan has just been written, after the lines before it
C11_Witness ==
    /\ LineWritten
    /\ module_state = "locked"
    /\ scan_line_count = StartRes[2]
    /\ ghost.line_events = StartRes[2]
    /\ StartRes[2] >= 2
    /\ \A j \in 1..StartRes[2] :
          scan_data[running_scan].data["fluorescence"][1][j] # 0

\* arr is an all-zero array of shape (rx, ry)
IsZeroArray(arr, rx, ry) ==
    /\ DOMAIN arr = 1..rx
    /\ \A i \in 1..rx : DOMAIN arr[i] = 1..ry /\ \A j \in 1..ry : arr[i][j] = 0

\* the step is a start request that was accepted: no error, no exception
AcceptedStart ==
    /\ last'.op = "toggle_scan" /\ last'.start
    /\ last'.err = "" /\ last'.exc = ""

\* C13: an accepted scan start replaces the buffer of the scanned axis pair by
\* an all-zero buffer (every channel array and every axis-position array) of
\* the shape (R_x, R_y) the settings hold for that pair at that moment, sets
\* line_count to 0 and stop_requested to false, and leaves the buffers of all
\* other axis pairs as they were.
C13_FreshBufferOnStart ==
    [][AcceptedStart =>
         LET axes == last'.axes
             rx == scanner_settings.scan_resolution[axes[1]]
             ry == scanner_settings.scan_resolution[axes[2]]
             sd == scan_data'[axes]
         IN  /\ running_scan' = axes
             /\ sd.scan_axes = axes
             /\ sd.resolution = <<rx, ry>>
             /\ DOMAIN sd.data = Channels
             /\ DOMAIN sd.position_data = AxisSet
             /\ \A c \in Channels : IsZeroArray(sd.data[c], rx, ry)
             /\ \A a \in AxisSet : IsZeroArray(sd.position_data[a], rx, ry)
             /\ scan_line_count' = 0
             /\ scan_stop_requested' = FALSE
             /\ DOMAIN scan_data' = DOMAIN scan_data
             /\ \A k \in DOMAIN scan_data \ {axes} : scan_data'[k] = scan_data[k]]_vars

\* a second scan has just been started on a pair whose buffer held the lines
\* of a first scan of another shape
C13_Witness ==
    /\ last.op = "toggle_scan" /\ last.start
    /\ last.err = "" /\ last.exc = ""
    /\ calls.starts = 2
    /\ scan_data[running_scan].resolution = <<2, MaxRes>>
    /\ Len(current_dummy_data) = 2
    /\ scan_line_count = 0
    /\ ~scan_stop_requested

\* the step is a direct call of add_line_data
LineCallStep == line_call'.n = line_call.n + 1

\* the call gave neither index, or both
NotOneIndex(c) == (c.y_index = None) = (c.x_index = None)

\* the call gave all axes and all channels, in arrays of the size of the line
\* that its index selects
WellFormedLine(c, sd) ==
    /\ c.position_axes = AxisSet
    /\ c.data_channels = Channels
    /\ c.size = IF c.y_index = None THEN sd.resolution[2] ELSE sd.resolution[1]

\* arr2 is arr1 with the line selected by the call's index set to v
LineWrittenTo(arr1, arr2, c, v) ==
    /\ DOMAIN arr2 = DOMAIN arr1
    /\ \A i \in DOMAIN arr1 :
          /\ DOMAIN arr2[i] = DOMAIN arr1[i]
          /\ \A j \in DOMAIN arr1[i] :
                arr2[i][j] = IF \/ c.y_index = None /\ i = c.x_index[1] + 1
                                \/ c.x_index = None /\ j = c.y_index[1] + 1
                             THEN v ELSE arr1[i][j]

\* a call with exactly one index and well-formed lines raises nothing and
\* writes that row or column, and nothing else, in every array
OneIndexWrites(c, sd, td) ==
    (~NotOneIndex(c) /\ WellFormedLine(c, sd)) =>
        /\ c.exc = ""
        /\ \A ch \in Channels : LineWrittenTo(sd.data[ch], td.data[ch], c, c.value)
        /\ \A a \in AxisSet :
              LineWrittenTo(sd.position_data[a], td.position_data[a], c, 10 + c.value)

\* C12: add_line_data accepts exactly one of x_index / y_index: a call with
\* neither or with both raises an error (and writes nothing), and a call with
\* exactly one index and correctly sized arrays writes that row or column into
\* every channel array and every axis-position array and leaves all other rows
\* and columns unchanged.
C12_ExactlyOneIndex ==
    [][LineCallStep =>
         LET c == line_call'
             sd == scan_data[LineBuffer]
             td == scan_data'[LineBuffer]
         IN  /\ NotOneIndex(c) => (c.exc # "" /\ td = sd)
             /\ OneIndexWrites(c, sd, td)]_vars

\* The part of C12 that the code satisfies: the call with neither index raises,
\* and the call with exactly one index writes its line (this holds).
C12_NeitherOrOne ==
    [][LineCallStep =>
         LET c == line_call'
             sd == scan_data[LineBuffer]
             td == scan_data'[LineBuffer]
         IN  /\ (c.y_index = None /\ c.x_index = None) => (c.exc # "" /\ td = sd)
             /\ OneIndexWrites(c, sd, td)]_vars

\* a call with both indices and well-formed lines has returned without an
\* error and without writing anything
C12_Witness ==
    /\ line_call.n = 1
    /\ line_call.y_index = <<0>> /\ line_call.x_index = <<1>>
    /\ line_call.position_axes = AxisSet /\ line_call.data_channels = Channels
    /\ line_call.exc = ""
    /\ \A ch \in Channels :
          IsZeroArray(scan_data[LineBuffer].data[ch],
                      scan_data[LineBuffer].resolution[1],
                      scan_data[LineBuffer].resolution[2])

\* ---------------------------------------------------------- imaging task
\* the n-th (channel, frame) iteration of a pass in declared order, 0-based
DeclaredIter(n, num_frames) == <<(n - 1) \div num_frames, (n - 1) % num_frames>>

\* the step is runTaskStep making the hardware call name
StepCalls(name) == tlast'.op = "runTaskStep" /\ ops' = <<name>>

\* C14: when the trigger of an iteration reported a negative status, the
\* missed-trigger counter goes up by one and the step is repeated from the
\* first frame of the first entry; the iterations of a pass run in declared
\* order: the n-th iteration since the pass began is entry (n-1) div num_frames,
\* frame (n-1) mod num_frames.
C14_MissRestartsSequence ==
    [][/\ (StepCalls("daq.voltage_off") /\ task.err < 0)
            => /\ task'.err_count = <<task.err_count[1] + 1>>
               /\ tlast'.ret = "true"
               /\ task_pc' = "step"
       /\ (task_pc = "step" /\ tlast'.op = "runTaskStep" /\ ~tlast'.refused)
            => /\ task'.i = 0 /\ task'.j = 0
               /\ tghost'.pass_iters = <<>>
               /\ task_pc' = "prepare"
       /\ StepCalls("daq.apply_voltage")
            => <<task.i, task.j>> = DeclaredIter(Len(tghost.pass_iters) + 1,
                                                 task.num_frames[1])
       /\ (StepCalls("daq.voltage_off") /\ ~(task.err < 0) /\ task_pc' # "cleanup")
            => <<task'.i, task'.j>> = DeclaredIter(Len(tghost.pass_iters) + 2,
                                                   task.num_frames[1])]_vars

\* the first iteration of the pass after a miss in the second frame of the
\* second entry has just ended
C14_Witness ==
    /\ task_state = "running"
    /\ tlast.op = "runTaskStep" /\ ops = <<"daq.voltage_off">>
    /\ tghost.misses = 1
    /\ task.err_count = <<1>>
    /\ <<1, 1>> \in tghost.earlier
    /\ tghost.pass_iters = <<<<0, 0>>>>

\* the step has returned False at the end of the loop over the sequence
StepCompleted ==
    tlast.op = "runTaskStep" /\ tlast.ret = "false" /\ ~tlast.refused

\* C15: whatever the pattern of missed triggers, when the step reports
\* completion the iterations since the last miss are exactly the
\* len(imaging_sequence) * num_frames iterations in declared order, every
\* iteration executed before a miss is among them, and the counter equals the
\* number of misses; the counter never decreases while the task runs.
C15_CompletionAfterMisses ==
    [][/\ StepCompleted' =>
            LET total == Len(task'.imaging_sequence) * task'.num_frames[1]
            IN  /\ Len(tghost'.pass_iters) = total
                /\ \A n \in 1..total :
                      tghost'.pass_iters[n] = DeclaredIter(n, task'.num_frames[1])
                /\ tghost'.earlier \subseteq SeqToSet(tghost'.pass_iters)
                /\ task'.err_count = <<tghost'.misses>>
       /\ (task_state = "running" /\ task_state' = "running")
            => IF task.err_count = None THEN task'.err_count = None
               ELSE task'.err_count[1] >= task.err_count[1]]_vars

\* a task of two entries and two frames is complete after one miss, on the
\* third trigger
C15_Witness ==
    /\ StepCompleted
    /\ Len(task.imaging_sequence) = 2 /\ task.num_frames = <<2>>
    /\ tghost.misses = 1
    /\ task.err_count = <<1>>
    /\ tghost.earlier = {<<0, 0>>, <<0, 1>>, <<1, 0>>}
    /\ tghost.triggers = 7

\* the hardware the task drives
hardware == <<daq, camera, filter_position>>

\* the step belongs to a task run whose start was refused: the refused
\* startTask itself, or a call the framework makes afterwards
RefusedRunStep ==
    /\ tghost'.refused
    /\ tlast'.op \in {"startTask", "runTaskStep", "cleanupTask"}

\* C16: when the camera is live or saving at the start of the task, the start
\* is refused and, until the task has ended, no call changes the hardware: no
\* hardware call is made at all by startTask, by the framework's step or by its
\* cleanup, and filter, DAQ, lasers, intensity map and camera stay as they were.
C16_RefusedStartNoSideEffects ==
    [][/\ (tlast'.op = "startTask" /\ (camera.enabled \/ camera.saving))
            => tlast'.refused
       /\ RefusedRunStep => (ops' = <<>> /\ UNCHANGED hardware)]_vars

\* The part of C16 that the code satisfies: the refused startTask and the step
\* after it make no hardware call (this holds).
C16_StartAndStepOnly ==
    [][/\ (tlast'.op = "startTask" /\ (camera.enabled \/ camera.saving))
            => tlast'.refused
       /\ (RefusedRunStep /\ tlast'.op # "cleanupTask")
            => (ops' = <<>> /\ UNCHANGED hardware)]_vars

\* the cleanup after a start refused for live mode has aborted the camera's
\* acquisition
C16_Witness ==
    /\ tlast.op = "cleanupTask" /\ tlast.refused
    /\ camera.enabled /\ ~camera.acquiring
    /\ ops = CleanupSteps

\* the state cleanupTask is to leave behind
CleanedUp ==
    /\ ~daq.enabled
    /\ \A l \in Lasers : daq.output[l] = 0
    /\ \A k \in DOMAIN daq.intensity_dict : daq.intensity_dict[k] = 0
    /\ daq.do_task = "closed" /\ daq.ai_task = "closed"
    /\ camera.acquisition_mode = "RUN_TILL_ABORT"
    /\ camera.trigger_mode = "INTERNAL"

\* C17: after cleanupTask, from whatever state it was called in (completion,
\* abort, abort after a miss, refused start), the lasers are off, the intensity
\* map is all zero, both DAQ task handles are released, the camera is in
\* RUN_TILL_ABORT mode with INTERNAL trigger, and the missed-trigger count was
\* logged without an error.
C17_CleanupRestores ==
    tlast.op = "cleanupTask" => (CleanedUp /\ tlast.exc = "")

\* The same for the cleanups of a Task object that startTask has initialised
\* at least once (this holds).
C17_AfterAnAcceptedStart ==
    (tlast.op = "cleanupTask" /\ task.err_count # None)
        => (CleanedUp /\ tlast.exc = "")

\* the cleanup after the refused first start has failed at its log line
C17_Witness ==
    /\ tlast.op = "cleanupTask" /\ tlast.refused
    /\ task.err_count = None
    /\ tlast.exc = "AttributeError"
    /\ CleanedUp

\* C18: whichever hardware call of cleanupTask fails, all the reset calls are
\* attempted: laser off, intensity-map reset, release of both task handles,
\* camera abort, spool off, acquisition mode and trigger mode.
C18_CleanupStepsIndependent ==
    [][tlast'.op = "cleanupTask" => SeqToSet(ops') = SeqToSet(CleanupSteps)]_vars

\* voltage_off has raised during the cleanup of a task aborted after its
\* start: nothing else was attempted and the camera is left in task mode
C18_Witness ==
    /\ tlast.op = "cleanupTask"
    /\ tlast.exc = "HardwareError"
    /\ ops = <<"daq.voltage_off">>
    /\ camera.acquisition_mode = "KINETICS" /\ camera.trigger_mode = "EXTERNAL"
    /\ daq.do_task = "open"

\* C19: an iteration is apply-intensity, send trigger, readings of the fire
\* signal until one is at or below the threshold, laser off: each call follows
\* the one before it, the laser is not switched off while the last reading is
\* above the threshold, and between two consecutive trigger sends the laser
\* events are exactly one off followed by one on.
C19_IterationOrder ==
    [][/\ StepCalls("daq.send_trigger_and_control_ai")
            => /\ ops = <<"daq.apply_voltage">>
               /\ daq.enabled
               /\ tghost.triggers > 0 => tghost.since_trigger = <<"off", "on">>
       /\ StepCalls("daq.read_ai_channel")
            => \/ ops = <<"daq.send_trigger_and_control_ai">>
               \/ ops = <<"daq.read_ai_channel">> /\ task.ai_read > FireThreshold
       /\ StepCalls("daq.voltage_off")
            => /\ ops = <<"daq.read_ai_channel">>
               /\ task.ai_read <= FireThreshold
               /\ ~daq'.enabled
       /\ (task_pc = "read" /\ ops = <<"daq.read_ai_channel">>
             /\ tlast'.op = "runTaskStep")
            => ops' = <<"daq.read_ai_channel">>]_vars

\* the laser has been switched off after a reading above the threshold was
\* followed by one at the threshold, in the second iteration of a pass
C19_Witness ==
    /\ tlast.op = "runTaskStep" /\ ops = <<"daq.voltage_off">>
    /\ tghost.high_reads = 1
    /\ task.ai_read = FireThreshold
    /\ tghost.triggers = 2
    /\ tghost.since_trigger = <<"off">>

\* C20: when a trigger is sent in an iteration of entry (L, p), the intensity
\* map holds p for L and 0 for every other configured laser.
C20_SingleActiveIntensity ==
    [][StepCalls("daq.send_trigger_and_control_ai") =>
         LET n == Len(tghost.pass_iters) + 1
             entry == task.imaging_sequence[DeclaredIter(n, task.num_frames[1])[1] + 1]
         IN  /\ entry[1] \in Lasers
             /\ DOMAIN daq.intensity_dict = Lasers
             /\ \A l \in Lasers :
                   daq.intensity_dict[l] = IF l = entry[1] THEN entry[2] ELSE 0]_vars

\* a trigger has been sent for the second entry, which repeats the laser of
\* the first, in a pass after a missed trigger, in a task started with
\* laser3 set to 7 in the GUI
C20_Witness ==
    /\ tlast.op = "runTaskStep" /\ ops = <<"daq.send_trigger_and_control_ai">>
    /\ task.imaging_sequence = <<<<"laser1", 3>>, <<"laser1", 5>>>>
    /\ task.i = 1
    /\ tghost.misses >= 1
    /\ tghost.earlier # {}
    /\ daq.intensity_dict = [l \in Lasers |-> IF l = "laser1" THEN 5 ELSE 0]

\* C21: after activation and any sequence of init_intensity_dict,
\* reset_intensity_dict and update_intensity_dict calls the intensity map has
\* exactly one entry per configured laser line: its key set is the key set of
\* the laser dict, and update_intensity_dict with an identifier that is not a
\* configured laser adds no entry.
C21_OneEntryPerLaser == DOMAIN daq.intensity_dict = DOMAIN LaserDict

\* update_intensity_dict has run with an identifier that is no configured
\* laser, and the map holds an entry for it
C21_Witness ==
    /\ laser_call.op = "update_intensity_dict"
    /\ laser_call.key = UnknownLaser
    /\ laser_call.key \notin DOMAIN LaserDict
    /\ laser_call.key \in DOMAIN daq.intensity_dict
    /\ daq.intensity_dict[laser_call.key] = laser_call.value

\* C22: every value stored in the intensity map is a percentage within
\* [0, 100] after any sequence of reset_intensity_dict and
\* update_intensity_dict calls, and no value outside that range is converted
\* and written to the laser controller by apply_voltage.
PercentWrites(controllertype, writes) ==
    IF controllertype = "daq"
    THEN \A n \in 1..Len(writes) : writes[n].value \in Voltage(0)..Voltage(100)
    ELSE IF controllertype = "fpga"
    THEN \A n \in 1..Len(writes) : writes[n].value \in 0..100
    ELSE \A n \in 1..Len(writes) :
            \A m \in 1..Len(writes[n].value) : writes[n].value[m] \in 0..(100 * 10)

C22_IntensityWithinPercent ==
    /\ \A k \in DOMAIN daq.intensity_dict : daq.intensity_dict[k] \in 0..100
    /\ PercentWrites(daq.controllertype, laser_call.writes)

\* apply_voltage has written more than the full voltage of a DAQ channel for
\* an intensity of a configured laser that update_intensity_dict stored
C22_Witness ==
    /\ laser_call.op = "apply_voltage"
    /\ daq.controllertype = "daq"
    /\ \E n \in 1..Len(LaserOrder) :
          /\ daq.intensity_dict[LaserOrder[n]] > 100
          /\ laser_call.writes[n].value = Voltage(daq.intensity_dict[LaserOrder[n]])
          /\ laser_call.writes[n].value > Voltage(100)
          /\ daq.output[LaserOrder[n]] > AoVoltageMax * 100

\* C23: update_intensity_dict(key, value) writes to the laser hardware exactly
\* when the lasers are already on. enabled is true exactly when the last
\* switching operation was apply_voltage; then the call stores the value and
\* writes the new map to the controller in the same call. If enabled is false
\* (initially, or after voltage_off) the call only stores the value: it makes
\* no controller call and leaves the outputs and enabled as they are.
C23_UpdateAppliesWhenEnabled ==
    [][laser_call'.op = "update_intensity_dict" =>
        /\ daq.enabled <=> laser_call.switched = "apply_voltage"
        /\ daq'.intensity_dict[laser_call'.key] = laser_call'.value
        /\ \A k \in DOMAIN daq.intensity_dict \ {laser_call'.key} :
              daq'.intensity_dict[k] = daq.intensity_dict[k]
        /\ daq'.enabled = daq.enabled
        /\ daq.enabled =>
              /\ laser_call'.writes # <<>>
              /\ laser_call'.writes = ApplyWrites(daq')
              /\ daq'.output = OutputAfter(daq.controllertype, laser_call'.writes)
              /\ laser_call'.key \in Lasers /\ daq.controllertype = "daq" =>
                    daq'.output[laser_call'.key] = Voltage(laser_call'.value)
        /\ ~daq.enabled =>
              /\ laser_call'.writes = <<>>
              /\ daq'.output = daq.output]_vars

\* the lasers are on, and an update of a configured laser has been written to
\* the DAQ in the same call
C23_Witness ==
    /\ laser_call.op = "update_intensity_dict"
    /\ laser_call.enabled /\ daq.enabled
    /\ laser_call.switched = "apply_voltage"
    /\ daq.controllertype = "daq"
    /\ laser_call.key = "laser2" /\ laser_call.value = 40
    /\ laser_call.writes # <<>>
    /\ daq.output["laser2"] = Voltage(40)
    /\ daq.output["laser1"] = Voltage(100)

\* C24: voltage_off switches the output of every configured laser to zero
\* (DAQ, FPGA) or its emission off (celesta) and sets enabled to false, but
\* leaves the intensity map unchanged; apply_voltage writes the conversion of
\* the map, so voltage_off followed by apply_voltage writes the same
\* intensities as an apply_voltage before the voltage_off.
AllOff(controllertype, writes) ==
    IF controllertype \in {"daq", "fpga"}
    THEN /\ {writes[n].channel : n \in 1..Len(writes)} =
                {LaserDict[l].channel : l \in Lasers}
         /\ \A n \in 1..Len(writes) : writes[n].value = 0
    ELSE /\ Len(writes) = 1
         /\ \A m \in 1..Len(writes[1].channel) : writes[1].channel[m] = 0

C24_VoltageOffKeepsIntensities ==
    [][/\ laser_call'.op = "voltage_off" =>
            /\ AllOff(daq.controllertype, laser_call'.writes)
            /\ \A l \in Lasers : daq'.output[l] = 0
            /\ ~daq'.enabled
            /\ daq'.intensity_dict = daq.intensity_dict
            /\ ApplyWrites(daq') = ApplyWrites(daq)
       /\ laser_call'.op = "apply_voltage" =>
            /\ laser_call'.writes = ApplyWrites(daq)
            /\ daq'.intensity_dict = daq.intensity_dict
            /\ daq'.output = OutputAfter(daq.controllertype, ApplyWrites(daq))
            /\ daq'.enabled]_vars

\* voltage_off has switched lasers off that were on with a non-zero intensity,
\* and the map still holds the intensity
C24_Witness ==
    /\ laser_call.op = "voltage_off"
    /\ laser_call.enabled
    /\ ~daq.enabled
    /\ daq.intensity_dict["laser1"] = 40
    /\ \A l \in Lasers : daq.output[l] = 0

\* C25: the fluidics resolver maps (index, flow f) to MFC setpoints, for every
\* index and every flow: index 0 or f = 0 gives [0, 0, 0, 0]; index 1 with
\* f # 0 gives [f, f, 2f, 2f], sent with configuration tag 1; any other index
\* with f # 0 gives [2f, 2f, 4f, 0], sent with configuration tag 2.
ArenaStep == gui_call'.op \in {"currentIndexChanged", "editingFinished"}

C25_ResolverSetpoints ==
    [][ArenaStep =>
        LET index == odor_gui'.index
            f == odor_gui'.flow
            sent == odor_logic'.air_flow
        IN  /\ index = 0 \/ f = 0 =>
                  /\ odor_gui'.setpoint = <<0, 0, 0, 0>>
                  /\ sent.name # "start_air_flow"
            /\ index = 1 /\ f # 0 =>
                  /\ odor_gui'.setpoint = <<f, f, f + f, f + f>>
                  /\ sent = [name |-> "start_air_flow",
                             mfc_flow |-> <<f, f, f + f, f + f>>, config |-> 1]
            /\ index \notin {0, 1} /\ f # 0 =>
                  /\ odor_gui'.setpoint = <<f + f, f + f, f + f + f + f, 0>>
                  /\ sent = [name |-> "start_air_flow",
                             mfc_flow |-> <<f + f, f + f, f + f + f + f, 0>>,
                             config |-> 2]]_vars

\* configuration 2 has been selected with a flow of 2.0 sL/min
C25_Witness ==
    /\ gui_call.op = "currentIndexChanged"
    /\ odor_gui.index = 2 /\ odor_gui.flow = 20
    /\ odor_gui.setpoint = <<40, 40, 80, 0>>
    /\ odor_logic.air_flow.config = 2

\* C26 as stated: for index 0 or flow 0 the valve controls are disabled and the
\* upstream air flow is stopped; for any other index with non-zero flow the
\* valve controls are enabled and the air flow is started.
C26_ValvesEnabledWithFlow ==
    [][ArenaStep /\ odor_gui.valve_status # None =>
        LET off == odor_gui'.index = 0 \/ odor_gui'.flow = 0
        IN  /\ off => /\ \A v \in Valves : odor_gui'.valve_checkbox_disabled[v]
                      /\ odor_logic'.air_flow.name = "stop_air_flow"
            /\ ~off => /\ \A v \in Valves : ~odor_gui'.valve_checkbox_disabled[v]
                       /\ odor_logic'.air_flow.name = "start_air_flow"]_vars

\* C26, amended: for index 0 or flow 0 the checkbox of every valve of the
\* current valve status is enabled (the valves can be tested by hand) and the
\* air flow is stopped; for any other index with non-zero flow these
\* checkboxes are disabled and the air flow is started. Before a valve status
\* has arrived no checkbox changes.
C26_ValvesLockedWithFlow ==
    [][ArenaStep =>
        LET off == odor_gui'.index = 0 \/ odor_gui'.flow = 0
        IN  /\ odor_gui.valve_status # None =>
                  \A v \in Valves : odor_gui'.valve_checkbox_disabled[v] = ~off
            /\ odor_gui.valve_status = None =>
                  odor_gui'.valve_checkbox_disabled = odor_gui.valve_checkbox_disabled
            /\ odor_logic'.air_flow.name =
                  IF off THEN "stop_air_flow" ELSE "start_air_flow"]_vars

\* with a valve status on display, the flow was set to zero in configuration
\* 1: the valve checkboxes are enabled and the air flow is stopped
C26_Witness ==
    /\ gui_call.op = "editingFinished"
    /\ odor_gui.index = 1 /\ odor_gui.flow = 0
    /\ odor_gui.valve_status # None
    /\ \A v \in Valves : ~odor_gui.valve_checkbox_disabled[v]
    /\ odor_logic.air_flow.name = "stop_air_flow"

\* C27 as stated: for an observed valve-state vector the scheme on display is
\* the lowest table index whose vector equals the observed vector; if no table
\* vector equals it, the scheme on display is not changed.
ValveStep == gui_call'.op = "sigUpdateValveState"

Lowest(status_list) ==
    CHOOSE n \in 0..(Len(ConfigValves) - 1) :
        /\ ConfigValves[n + 1] = status_list
        /\ \A m \in 0..(n - 1) : ConfigValves[m + 1] # status_list

InTable(status_list) == \E n \in 1..Len(ConfigValves) : ConfigValves[n] = status_list

C27_ReverseMapping ==
    [][ValveStep =>
        LET status_list == gui_call'.status[1]
        IN  /\ InTable(status_list) => odor_gui'.scheme = Lowest(status_list)
            /\ ~InTable(status_list) => odor_gui'.scheme = odor_gui.scheme]_vars

\* C27, amended: while a quadrant configuration is selected (index > 0), the
\* scheme on display is the lowest table index whose vector equals the
\* observed vector, and it is not changed if no table vector equals it (the
\* lookup yields None); with index 0 the scheme of configuration 0 is
\* displayed whatever the vector is.
C27_ReverseMappingWhileOn ==
    [][ValveStep =>
        LET status_list == gui_call'.status[1]
        IN  /\ odor_gui.index > 0 /\ InTable(status_list) =>
                  /\ odor_gui'.scheme = Lowest(status_list)
                  /\ gui_call'.matching = <<Lowest(status_list)>>
            /\ odor_gui.index > 0 /\ ~InTable(status_list) =>
                  /\ odor_gui'.scheme = odor_gui.scheme
                  /\ gui_call'.matching = None
            /\ odor_gui.index <= 0 => odor_gui'.scheme = 0]_vars

\* with configuration 1 selected, the vector that entries 1 and 3 of the table
\* hold has been observed, and scheme 1 is on display
C27_Witness ==
    /\ gui_call.op = "sigUpdateValveState"
    /\ odor_gui.index = 1
    /\ gui_call.status = <<ConfigValves[2]>>
    /\ ConfigValves[4] = ConfigValves[2]
    /\ gui_call.matching = <<1>>
    /\ odor_gui.scheme = 1

\* C28: set_scanner_target_position with a position dict naming any axis that
\* is not a scanner axis is rejected as a whole: no axis of the stored target
\* changes (the valid axes of the same dict included), the error is logged,
\* and the call emits neither sigScannerTargetChanged nor
\* sigScannerPositionChanged.
NamesUnknownAxis(pos_dict) ==
    \E n \in 1..Len(pos_dict) : pos_dict[n][1] \notin SeqToSet(Axes)

C28_UnknownAxisRejected ==
    [][/\ last'.op = "set_scanner_target_position"
       /\ NamesUnknownAxis(target_call'.pos_dict)
       => /\ target' = target
          /\ programState' = programState
          /\ last'.err # ""
          /\ ~EmitsSignal(emitted', "sigScannerTargetChanged")
          /\ ~EmitsSignal(emitted', "sigScannerPositionChanged")]_vars

\* after an accepted call that moved x, a dict with a new value for x and an
\* unknown axis behind it was rejected: x is where the accepted call put it
C28_Witness ==
    /\ last.op = "set_scanner_target_position"
    /\ target_call.pos_dict = <<<<"x", PosScale>>, <<"w", 0>>>>
    /\ last.err # ""
    /\ emitted = <<>>
    /\ target["x"] = 0
    /\ DOMAIN target = SeqToSet(Axes)

\* C29: the missed-trigger retry has no upper bound: for every n >= 1, when
\* the hardware reports the n-th missed trigger the step still returns True,
\* the counter becomes n, the task keeps running and the next call of the step
\* starts the sequence again at its first entry; no number of accumulated
\* misses makes the step return False or raise.
C29_RetryWithoutLimit ==
    [][\A n \in 1..MaxMisses :
        /\ (/\ task_pc = "off" /\ tlast'.op = "runTaskStep"
            /\ task.err < 0 /\ task.err_count = <<n - 1>>)
            => /\ tlast'.ret = "true" /\ tlast'.exc = ""
               /\ task'.err_count = <<n>>
               /\ task_state' = "running"
               /\ task_pc' = "step"
        /\ (/\ task_pc = "step" /\ tlast'.op = "runTaskStep" /\ ~tlast'.refused
            /\ task.err_count = <<n>>)
            => /\ task_pc' = "prepare"
               /\ task'.i = 0 /\ task'.j = 0
               /\ task'.err_count = <<n>>]_vars

\* the step has begun again after the last miss the model lets the hardware
\* report
C29_Witness ==
    /\ task_state = "running" /\ task_pc = "prepare"
    /\ tlast.op = "runTaskStep"
    /\ task.err_count = <<MaxMisses>>
    /\ tghost.misses = MaxMisses
    /\ task.i = 0

\* C30: if after every trigger the fire signal eventually reads at or below
\* the threshold and only finitely many triggers are missed, a running task
\* whose start was accepted eventually sees its step return False (or is
\* aborted from outside), and the step returns False only after a pass in
\* which all len(imaging_sequence) * num_frames iterations ran without a
\* missed trigger.
C30_EventualCompletion ==
    /\ (task_state = "running" /\ ~tghost.refused)
          ~> (StepCompleted \/ tghost.aborted)
    /\ [][StepCompleted' /\ ~StepCompleted =>
            /\ task.err >= 0
            /\ Len(tghost'.pass_iters) =
                  Len(task'.imaging_sequence) * task'.num_frames[1]
            /\ \A n \in 1..Len(tghost'.pass_iters) :
                  tghost'.pass_iters[n] = DeclaredIter(n, task'.num_frames[1])]_vars

\* the step has returned False after two missed triggers and a fire signal
\* that was still high at its first reading
C30_Witness ==
    /\ StepCompleted
    /\ task_pc = "cleanup"
    /\ tghost.misses = 2
    /\ tghost.high_reads >= 1
    /\ Len(tghost.pass_iters) = Len(task.imaging_sequence) * task.num_frames[1]

\* C31 (the part about the emission): set_scanner_settings emits one
\* settings-changed event exactly when it accepted the whole update, and the
\* event carries the settings stored after the call.
C31_EmittedWhenAccepted ==
    [][last'.op = "set_scanner_settings" =>
        /\ ValidUpdate(last'.settings) <=> last'.err = ""
        /\ last'.err = "" <=> EmitsSignal(emitted', "sigScannerSettingsChanged")
        /\ last'.err = "" => emitted' = <<SettingsEvt(scanner_settings')>>
        /\ last'.err # "" => emitted' = <<>>]_vars

\* C31: the settings-changed event is emitted exactly when the whole update was
\* accepted and carries the stored settings, and a rejected update emits no
\* event and leaves the stored settings as they were last announced, so that
\* the announced settings always equal the stored ones.
C31_AnnouncedEqualsStored ==
    [][/\ last'.op = "set_scanner_settings" =>
            /\ last'.err = "" <=> EmitsSignal(emitted', "sigScannerSettingsChanged")
            /\ last'.err = "" => emitted' = <<SettingsEvt(scanner_settings')>>
            /\ last'.err # "" => scanner_settings' = scanner_settings
       /\ ~EmitsSignal(emitted', "sigScannerSettingsChanged") =>
            scanner_settings' = scanner_settings]_vars

\* a rejected update that announced nothing and has changed the pixel clock
C31_Witness ==
    /\ last.op = "set_scanner_settings"
    /\ last.err = "Backscan points must be integer number >= 1."
    /\ emitted = <<>>
    /\ last.settings.pixel_clock_frequency # None
    /\ scanner_settings.pixel_clock_frequency = ToInt(last.settings.pixel_clock_frequency[1])
    /\ scanner_settings.pixel_clock_frequency # InitPixelClock

\* C32: runTaskStep called while the camera is in live mode or saving returns
\* False before it does anything: no hardware call is made, the intensity map,
\* the laser outputs, the DAQ, the camera and the filter stay as they were, no
\* trigger is sent and the missed-trigger counter and the loop position keep
\* their values.
C32_StepRefusedDoesNothing ==
    [][(/\ tlast'.op = "runTaskStep" /\ task_pc = "step"
        /\ camera.enabled \/ camera.saving)
        => /\ tlast'.ret = "false" /\ tlast'.exc = ""
           /\ ops' = <<>>
           /\ daq' = daq
           /\ camera' = camera
           /\ filter_position' = filter_position
           /\ task' = task
           /\ tghost'.triggers = tghost.triggers
           /\ tghost'.misses = tghost.misses]_vars

\* a step refused for a running video save, with the intensity the laser GUI
\* had set still in the map and the lasers still on
C32_Witness ==
    /\ tlast.op = "runTaskStep" /\ tlast.refused /\ tlast.ret = "false"
    /\ camera.saving /\ ~camera.enabled
    /\ task_pc = "cleanup"
    /\ daq.intensity_dict["laser3"] = 7
    /\ daq.enabled

\* the slot that ran last returned the machine to Idle and announced it
ReturnedToIdle ==
    /\ module_state = "idle"
    /\ last.op = "_scan_loop"
    /\ emitted = <<ScanStateEvt(FALSE, running_scan)>>

\* C33: every scan that enters Running eventually returns to Idle and emits
\* scan-state-changed(false), whatever axis pair its start was requested with
\* and whether or not a stop is requested, and the machine is never locked
\* with no next-line event pending.
C33_ScanTerminates ==
    /\ (module_state = "locked") ~> ReturnedToIdle
    /\ [](module_state = "locked" => next_line_pending > 0)

\* C33 for the scans none of whose slots ended in an exception: a locked machine
\* with a next-line event pending returns to Idle (this holds).
C33_TerminatesUnlessRaised ==
    (module_state = "locked" /\ next_line_pending > 0)
        ~> (ReturnedToIdle \/ (module_state = "locked" /\ next_line_pending = 0))

\* the machine locked by a start for an unknown axis, with no next-line event
\* pending, rejecting the next start
C33_Witness ==
    /\ module_state = "locked"
    /\ next_line_pending = 0
    /\ running_scan = <<"x", "w">>
    /\ ~timer_running
    /\ last.op = "toggle_scan" /\ last.start
    /\ last.err = "Unable to start scan. Scan already in progress."

\* the scan-state-changed events among the signals of one slot
StateEvents(es) == SelectSeq(es, LAMBDA e : e.sig = "sigScanStateChanged")

\* C34: scan-state-changed events alternate, starting with running = true.
\* Stated per slot: a slot emits scan-state-changed(true, axes) exactly when it
\* takes the machine from Idle to Running, as its only signal and with the axes
\* of the scan; it emits scan-state-changed(false, axes) exactly when it takes
\* the machine from Running to Idle, as its only signal and with the axes the
\* scan was started with; line-data-changed events are emitted only by slots
\* that begin and end in Running, with the running scan's axes; and the running
\* axes change only with a start.  The machine starts Idle, so the events
\* alternate and every line event lies between the true and the false of its
\* scan.
C34_StateEventsAlternate ==
    [][/\ Len(StateEvents(emitted')) <= 1
       /\ (module_state = "idle" /\ module_state' = "locked")
            <=> emitted' = <<ScanStateEvt(TRUE, running_scan')>>
       /\ (module_state = "locked" /\ module_state' = "idle")
            <=> emitted' = <<ScanStateEvt(FALSE, running_scan)>>
       /\ StateEvents(emitted') # <<>>
            => /\ Len(emitted') = 1
               /\ module_state' # module_state
       /\ EmitsSignal(emitted', "sigScanDataChanged")
            => /\ module_state = "locked" /\ module_state' = "locked"
               /\ emitted' = <<ScanDataEvt(running_scan)>>
       /\ running_scan' # running_scan
            => /\ module_state = "idle"
               /\ emitted' = <<ScanStateEvt(TRUE, last'.axes)>>]_vars

\* the second scan has returned to Idle after it delivered a line
C34_Witness ==
    /\ module_state = "idle"
    /\ last.op = "_scan_loop"
    /\ emitted = <<ScanStateEvt(FALSE, <<"x", "y">>)>>
    /\ calls.starts = 2
    /\ ghost.line_events >= 1

\* C35: at most one next-line event is queued at any time and none while the
\* machine is Idle; a start finds the queue empty, so a scan never inherits an
\* event of an earlier scan, and an execution of the scan loop takes one event
\* off the queue and puts back at most one.
C35_OneNextLineEvent ==
    /\ [](/\ next_line_pending \in {0, 1}
          /\ module_state = "idle" => next_line_pending = 0)
    /\ [][/\ (last'.op = "toggle_scan" /\ last'.start /\ module_state = "idle")
               => next_line_pending = 0
          /\ last'.op = "_scan_loop"
               => /\ next_line_pending = 1
                  /\ next_line_pending' = 1 <=> EmitsSignal(emitted', "sigScanDataChanged")
          /\ last'.op \notin {"toggle_scan", "_scan_loop"}
               => next_line_pending' = next_line_pending]_vars

\* the second scan, asked to stop, with its one next-line event queued
C35_Witness ==
    /\ module_state = "locked"
    /\ next_line_pending = 1
    /\ calls.starts = 2
    /\ scan_stop_requested
    /\ last.op = "toggle_scan" /\ ~last.start /\ last.err = ""

\* C36: after activation the position-notification timer runs exactly when the
\* scan machine is Idle: a start on the idle machine stops it, every return to
\* Idle restarts it, and a rejected start or stop request leaves it as it is.
C36_TimerRunsWhenIdle ==
    /\ [](timer_running <=> module_state = "idle")
    /\ [][/\ (last'.op = "toggle_scan" /\ last'.start /\ module_state = "idle")
               => (timer_running /\ ~timer_running')
          /\ (module_state = "locked" /\ module_state' = "idle")
               => (~timer_running /\ timer_running')
          /\ (last'.op = "toggle_scan" /\ last'.err # "")
               => timer_running' = timer_running]_vars

\* a scan stopped before its first line has returned to Idle and the timer
\* runs again; the start before it had stopped the timer
C36_Witness ==
    /\ module_state = "idle" /\ timer_running
    /\ last.op = "_scan_loop"
    /\ emitted = <<ScanStateEvt(FALSE, <<"x", "y">>)>>
    /\ scan_stop_requested
    /\ ghost.line_events = 0
    /\ calls.starts = 1

\* a step of update_arena_config that finds the index 0 or the flow 0
ArenaOff == ArenaStep /\ (odor_gui'.index = 0 \/ odor_gui'.flow = 0)

\* C37: preparing_odor and injecting_odor are never both true, whatever the
\* sequence of prepare, inject and stop clicks, odor selections and arena
\* configurations: an accepted prepare leaves preparing set and injecting
\* cleared, an accepted inject leaves injecting set and preparing cleared, and
\* stop and an arena configuration with index 0 or flow 0 clear both.
C37_PrepareInjectExclusive ==
    /\ [](~(odor_gui.preparing_odor /\ odor_gui.injecting_odor))
    /\ [][/\ (gui_call'.op = "prepare_odor_clicked" /\ gui_call'.err = "")
               => (odor_gui'.preparing_odor /\ ~odor_gui'.injecting_odor)
          /\ (gui_call'.op = "inject_odor_clicked" /\ gui_call'.err = "")
               => (odor_gui'.injecting_odor /\ ~odor_gui'.preparing_odor)
          /\ (gui_call'.op = "stop_odor_clicked" \/ ArenaOff)
               => (~odor_gui'.preparing_odor /\ ~odor_gui'.injecting_odor)]_vars

\* an injection launched from a preparation: the click called inject_odor and
\* the preparation flag is cleared
C37_Witness ==
    /\ gui_call.op = "inject_odor_clicked"
    /\ gui_call.logic_call = <<"inject_odor", 0>>
    /\ odor_gui.injecting_odor /\ ~odor_gui.preparing_odor
    /\ odor_gui.selected_odor = 4
    /\ odor_gui.index = 2

\* C38: inject_odor_clicked while no odor is in preparation logs "No odor is
\* in preparation", calls nothing on the odor logic and changes neither flag,
\* nor the selected odor, nor which buttons are enabled; prepare_odor_clicked
\* with no odor selected logs "You need to select at least one odor", calls
\* nothing and changes none of these either.
C38_RejectedClicks ==
    [][/\ (gui_call'.op = "inject_odor_clicked" /\ ~odor_gui.preparing_odor)
            => /\ gui_call'.err = "No odor is in preparation"
               /\ gui_call'.logic_call = None
               /\ odor_gui' = odor_gui
               /\ odor_logic' = odor_logic
       /\ (gui_call'.op = "prepare_odor_clicked" /\ odor_gui.selected_odor = 0)
            => /\ gui_call'.err = "You need to select at least one odor"
               /\ gui_call'.logic_call = None
               /\ odor_gui' = odor_gui
               /\ odor_logic' = odor_logic
       /\ (gui_call'.op \in {"inject_odor_clicked", "prepare_odor_clicked"}
           /\ gui_call'.err # "")
            => gui_call'.logic_call = None]_vars

\* a second click on inject during an injection is rejected: no odor is in
\* preparation any more, and the injection flag stays set
C38_Witness ==
    /\ gui_call.op = "inject_odor_clicked"
    /\ gui_call.err = "No odor is in preparation"
    /\ gui_call.logic_call = None
    /\ odor_gui.injecting_odor /\ ~odor_gui.preparing_odor
    /\ odor_gui.pushbutton_disabled = [prep |-> FALSE, inject |-> TRUE, stop |-> FALSE]

====
